---- MODULE Spec2Model ----
(***************************************************************************)
(* A model of parts of the SGX standard-library port:                      *)
(*   - sgx_trts/src/c_str.rs : CString / CStr, their error types and the   *)
(*     defensive wipe of Drop for CString;                                 *)
(*   - sgx_tstd/src/net/mod.rs : each_addr, the sequential fallback over   *)
(*     resolved socket addresses;                                          *)
(*   - sgx_tstd/src/env.rs : var, var_os, set_var, remove_var, vars,       *)
(*     vars_os, split_paths and join_paths, over a model of sys::os;       *)
(*   - the boundary layer (Buffer Marshaller, Trusted Call Gate) and the   *)
(*     TcpStream operations, as the specification describes them.          *)
(* Each part is a specification of its own over the shared variables:      *)
(* Spec (CString), SpecCStr (CStr), SpecUnsafe (the unsafe constructors of *)
(* CString), SpecNet (each_addr), SpecEnv (the environment variables),     *)
(* SpecVars (iteration over a snapshot), SpecPaths (path lists), SpecGate  *)
(* (boundary calls of two threads), SpecTcp (read, write, shutdown).       *)
(* Bytes are integers 0..255; a Vec<u8>, a Box<[u8]> and a &[u8] are       *)
(* sequences of bytes; positions reported by the code are 0-based, as in   *)
(* the source, while TLA+ sequences are indexed from 1.                    *)
(***************************************************************************)
EXTENDS Integers, Sequences, FiniteSets, TLC

VARIABLES
    cs,         \* the live CString of the program, None or Some(CString)
    boxed,      \* the live Box<CStr> of the program, None or Some(CStr)
    out,        \* what the last c_str operation returned / released
    x,          \* a borrowed &CStr (left operand), None or Some(CStr)
    y,          \* a borrowed &CStr (right operand), None or Some(CStr)
    cmpres,     \* what the last CStr parse / comparison returned
    pc,         \* each_addr: position in the function body
    resolved,   \* each_addr: what addr.to_socket_addrs() returned
    f,          \* each_addr: the closure, as the result of each invocation
    addrs,      \* each_addr: the iterator of candidates not yet taken
    last_err,   \* each_addr: the local `last_err`
    calls,      \* each_addr: the invocations of f so far, <<argument, result>>
    ret,        \* each_addr: the returned io::Result, None until it returns
    env,        \* the environment of the process, a sequence of <<key, value>>
    hist,       \* per key, the value of the last completed set_var, None
                \* after a completed remove_var or when never set
    eout,       \* what the last env operation did
    it,         \* the live Vars / VarsOs iterator, None or Some(iterator)
    snapshot,   \* the environment as it was when the iterator was made
    yielded,    \* the pairs the iterator has yielded so far
    itout,      \* what the last call of next() on the iterator did
    pout,       \* what the last split_paths / join_paths composition did
    arena,      \* the shared arena, one byte per cell
    th,         \* per enclave thread, its boundary call in progress
    tcp         \* one connected TcpStream, the shutdown calls made on it and
                \* the read and the write in progress on it

cvars == <<cs, boxed, out>>
svars == <<x, y, cmpres>>
nvars == <<pc, resolved, f, addrs, last_err, calls, ret>>
evars == <<env, hist, eout>>
ivars == <<it, snapshot, yielded, itout>>
pvars == <<pout>>
gvars == <<arena, th>>
tvars == <<tcp>>
vars == <<cs, boxed, out, x, y, cmpres, pc, resolved, f, addrs, last_err, calls, ret,
          env, hist, eout, it, snapshot, yielded, itout, pout, arena, th, tcp>>

----------------------------------------------------------------------------
(* Bounds of the model *)

\* longest byte sequence handed to a constructor
MaxLen == 3
\* most candidate addresses a resolution yields
MaxAddrs == 3
\* longest path list handed to split_paths
MaxPathLen == 5
\* longest path and most paths handed to join_paths
MaxEntryLen == 2
MaxEntries == 2
\* capacity, in bytes, of the receive and of the send buffer of the socket
SockBuf == 2
\* the capacity of the shared arena, in cells
ArenaCap == 3

\* the bytes inputs are drawn from: the nul byte, an ASCII letter 'A', a
\* UTF-8 continuation byte 0xA9, a two-byte lead 0xC3, a three-byte lead 0xE2
Byte == {0, 65, 169, 195, 226}
NonZeroU8 == Byte \ {0}

SeqsUpTo(S, n) == UNION {[1..k -> S] : k \in 0..n}
ByteSeqs == SeqsUpTo(Byte, MaxLen)
NonZeroSeqs == SeqsUpTo(NonZeroU8, MaxLen)

----------------------------------------------------------------------------
(* Option and Result *)

None == <<>>
Some(v) == <<v>>
Ok(v) == [ok |-> TRUE, val |-> v]
Err(e) == [ok |-> FALSE, err |-> e]

----------------------------------------------------------------------------
(* Byte-slice helpers used by c_str.rs *)

\* memchr::memchr(needle, haystack): the 0-based index of the first
\* occurrence of needle, None when there is none
memchr(needle, haystack) ==
    IF \E i \in 1..Len(haystack) : haystack[i] = needle
    THEN Some((CHOOSE i \in 1..Len(haystack) :
                  /\ haystack[i] = needle
                  /\ \A j \in 1..(i - 1) : haystack[j] # needle) - 1)
    ELSE None

\* Vec::pop followed by keeping the vector: all but the last element
PopLast(v) == SubSeq(v, 1, Len(v) - 1)

----------------------------------------------------------------------------
(* UTF-8 validation: String::from_utf8 as called by CString::into_string *)

\* core::str::utf8_char_width: the length of the sequence a first byte opens
utf8_char_width(b) ==
    IF b < 128 THEN 1
    ELSE IF b >= 194 /\ b <= 223 THEN 2
    ELSE IF b >= 224 /\ b <= 239 THEN 3
    ELSE IF b >= 240 /\ b <= 244 THEN 4
    ELSE 0

\* a continuation byte, 0x80..=0xBF
IsCont(b) == b >= 128 /\ b <= 191

\* the (first, second) pairs the validation accepts for a 3-byte sequence
Second3Ok(first, second) ==
    \/ first = 224 /\ second >= 160 /\ second <= 191
    \/ first >= 225 /\ first <= 236 /\ IsCont(second)
    \/ first = 237 /\ second >= 128 /\ second <= 159
    \/ first >= 238 /\ first <= 239 /\ IsCont(second)

\* the (first, second) pairs the validation accepts for a 4-byte sequence
Second4Ok(first, second) ==
    \/ first = 240 /\ second >= 144 /\ second <= 191
    \/ first >= 241 /\ first <= 243 /\ IsCont(second)
    \/ first = 244 /\ second >= 128 /\ second <= 143

Utf8Error(valid_up_to, error_len) ==
    [valid_up_to |-> valid_up_to, error_len |-> error_len]

\* the validation loop from byte offset index (0-based): None when the rest
\* is valid, Some(Utf8Error) at the first sequence that is not
RECURSIVE run_utf8_validation_from(_, _)
run_utf8_validation_from(v, index) ==
    IF index >= Len(v) THEN None
    ELSE
        LET first == v[index + 1]
            w == utf8_char_width(first)
            Has(k) == index + k < Len(v)
            At(k) == v[index + k + 1]
            err(n) == Some(Utf8Error(index, n))
        IN  IF first < 128 THEN run_utf8_validation_from(v, index + 1)
            ELSE IF w = 2 THEN
                IF ~Has(1) THEN err(None)
                ELSE IF ~IsCont(At(1)) THEN err(Some(1))
                ELSE run_utf8_validation_from(v, index + 2)
            ELSE IF w = 3 THEN
                IF ~Has(1) THEN err(None)
                ELSE IF ~Second3Ok(first, At(1)) THEN err(Some(1))
                ELSE IF ~Has(2) THEN err(None)
                ELSE IF ~IsCont(At(2)) THEN err(Some(2))
                ELSE run_utf8_validation_from(v, index + 3)
            ELSE IF w = 4 THEN
                IF ~Has(1) THEN err(None)
                ELSE IF ~Second4Ok(first, At(1)) THEN err(Some(1))
                ELSE IF ~Has(2) THEN err(None)
                ELSE IF ~IsCont(At(2)) THEN err(Some(2))
                ELSE IF ~Has(3) THEN err(None)
                ELSE IF ~IsCont(At(3)) THEN err(Some(3))
                ELSE run_utf8_validation_from(v, index + 4)
            ELSE err(Some(1))

\* String::from_utf8(vec): the String (its bytes) or a FromUtf8Error that
\* keeps the vector and the Utf8Error
String_from_utf8(vec) ==
    LET e == run_utf8_validation_from(vec, 0)
    IN  IF e = None THEN Ok([vec |-> vec])
        ELSE Err([bytes |-> vec, error |-> e[1]])

----------------------------------------------------------------------------
(* CString: struct CString { inner: Box<[u8]> } *)

CString(inner) == [inner |-> inner]
CStr(inner) == [inner |-> inner]
NulError(pos, bytes) == [pos |-> pos, bytes |-> bytes]
InteriorNul(pos) == [kind |-> "InteriorNul", pos |-> pos]
NotNulTerminated == [kind |-> "NotNulTerminated"]
FromVecWithNulError(error_kind, bytes) ==
    [error_kind |-> error_kind, bytes |-> bytes]
FromBytesWithNulError(kind) == [kind |-> kind]

\* CString::from_vec_unchecked: push the terminator, box the vector
from_vec_unchecked(v) == CString(Append(v, 0))

\* _new whose error keeps only the bytes before the nul byte
CString_new_truncating(bytes) ==
    LET i == memchr(0, bytes)
    IN  IF i # None THEN Err(NulError(i[1], SubSeq(bytes, 1, i[1])))
        ELSE Ok(from_vec_unchecked(bytes))

\* CString::_new (CString::new after SpecIntoVec::into_vec)
CString_new(bytes) ==
    LET i == memchr(0, bytes)
    IN  IF i # None THEN Err(NulError(i[1], bytes))
        ELSE Ok(from_vec_unchecked(bytes))

\* CString::from_vec_with_nul_unchecked: box the vector as it is
from_vec_with_nul_unchecked(v) == CString(v)

\* from_vec_with_nul that compares the nul position with the length itself
from_vec_with_nul_off_by_one(v) ==
    LET nul_pos == memchr(0, v)
    IN  IF nul_pos # None /\ nul_pos[1] = Len(v)
        THEN Ok(from_vec_with_nul_unchecked(v))
        ELSE IF nul_pos # None
        THEN Err(FromVecWithNulError(InteriorNul(nul_pos[1]), v))
        ELSE Err(FromVecWithNulError(NotNulTerminated, v))

\* CString::from_vec_with_nul
from_vec_with_nul(v) ==
    LET nul_pos == memchr(0, v)
    IN  IF nul_pos # None /\ nul_pos[1] + 1 = Len(v)
        THEN Ok(from_vec_with_nul_unchecked(v))
        ELSE IF nul_pos # None
        THEN Err(FromVecWithNulError(InteriorNul(nul_pos[1]), v))
        ELSE Err(FromVecWithNulError(NotNulTerminated, v))

\* NulError::nul_position, NulError::into_vec
nul_position(e) == e.pos
into_vec(e) == e.bytes

\* FromVecWithNulError::as_bytes, FromVecWithNulError::into_bytes
FromVecWithNulError_as_bytes(e) == e.bytes
FromVecWithNulError_into_bytes(e) == e.bytes

\* CString::into_inner: the box is moved out under ManuallyDrop, so
\* Drop for CString does not run on self
into_inner(self) == self.inner

\* into_bytes that forgets to pop the terminator
into_bytes_no_pop(self) == into_inner(self)

\* CString::into_bytes: the box as a vector, its last byte popped
into_bytes(self) == PopLast(into_inner(self))

\* CString::into_bytes_with_nul
into_bytes_with_nul(self) == into_inner(self)

\* CString::as_bytes: inner[..len - 1]
as_bytes(self) == SubSeq(self.inner, 1, Len(self.inner) - 1)

\* CString::as_bytes_with_nul
as_bytes_with_nul(self) == self.inner

\* CString::into_raw: the pointer to the buffer moved out of self
into_raw(self) == into_inner(self)

\* CString::into_boxed_c_str
into_boxed_c_str(self) == CStr(into_inner(self))

\* CStr::into_c_string
into_c_string(self) == CString(self.inner)

\* From<CString> for Arc<CStr> / Rc<CStr>: the bytes of the moved-out box
Arc_from(s) == CStr(into_inner(s))
Rc_from(s) == CStr(into_inner(s))

\* a Drop that releases the box without the wipe
CString_drop_no_wipe(self) == CString(self.inner)

\* Drop for CString: *inner.get_unchecked_mut(0) = 0, then the box is freed
CString_drop(self) == CString([self.inner EXCEPT ![1] = 0])

\* the derived Clone for CString: a copy of the boxed slice
CString_clone(self) == CString(self.inner)

\* into_string whose error rebuilds the CString without its terminator
into_string_no_nul(self) ==
    LET r == String_from_utf8(into_bytes(self))
    IN  IF r.ok THEN r
        ELSE Err([error |-> r.err.error,
                  inner |-> from_vec_with_nul_unchecked(r.err.bytes)])

\* CString::into_string
into_string(self) ==
    LET r == String_from_utf8(into_bytes(self))
    IN  IF r.ok THEN r
        ELSE Err([error |-> r.err.error,
                  inner |-> from_vec_unchecked(r.err.bytes)])

\* IntoStringError::into_cstring, IntoStringError::utf8_error
into_cstring(e) == e.inner
utf8_error(e) == e.error

\* From<Vec<NonZeroU8>> for CString
CString_from_nonzero(v) == from_vec_unchecked(v)

----------------------------------------------------------------------------
(* CStr: struct CStr { inner: [c_char] } *)

\* CStr::from_bytes_with_nul_unchecked
from_bytes_with_nul_unchecked(bytes) == CStr(bytes)

\* from_bytes_with_nul that accepts any slice holding a nul byte
from_bytes_with_nul_any_nul(bytes) ==
    LET nul_pos == memchr(0, bytes)
    IN  IF nul_pos # None
        THEN Ok(from_bytes_with_nul_unchecked(bytes))
        ELSE Err(FromBytesWithNulError(NotNulTerminated))

\* CStr::from_bytes_with_nul
from_bytes_with_nul(bytes) ==
    LET nul_pos == memchr(0, bytes)
    IN  IF nul_pos # None
        THEN IF nul_pos[1] + 1 # Len(bytes)
             THEN Err(FromBytesWithNulError(InteriorNul(nul_pos[1])))
             ELSE Ok(from_bytes_with_nul_unchecked(bytes))
        ELSE Err(FromBytesWithNulError(NotNulTerminated))

\* CStr::to_bytes_with_nul
to_bytes_with_nul(self) == self.inner

\* CStr::to_bytes: bytes[..len - 1]
to_bytes(self) ==
    LET bytes == to_bytes_with_nul(self)
    IN  SubSeq(bytes, 1, Len(bytes) - 1)

\* Default for &CStr: the one-byte slice [0]
CStr_default == CStr(<<0>>)

\* Deref for CString
deref(self) == from_bytes_with_nul_unchecked(as_bytes_with_nul(self))

\* ToOwned for CStr: to_owned
to_owned(self) == CString(to_bytes_with_nul(self))

\* clone_into that extends the taken vector instead of overwriting it
clone_into_extend(self, target) ==
    [target EXCEPT !.inner = target.inner \o to_bytes_with_nul(self)]

\* ToOwned for CStr: clone_into; target.inner is taken (left empty), the
\* vector is overwritten with self's bytes and boxed back into target
clone_into(self, target) ==
    LET taken == [target EXCEPT !.inner = <<>>]
        b == to_bytes_with_nul(self)
    IN  [taken EXCEPT !.inner = b]

\* Default for CString
CString_default == to_owned(CStr_default)

----------------------------------------------------------------------------
(* The C-string program: one live owned value, a CString or a Box<CStr>,   *)
(* created, converted, consumed and dropped by the public operations.      *)

\* the record of the last operation: its name, its byte argument, what it
\* returned, the CString's buffer before the operation took it, and the
\* buffer as it was released or handed on
Out(op, arg, res, before, buf) ==
    [op |-> op, arg |-> arg, res |-> res, before |-> before, buf |-> buf]

NoOut == Out("init", <<>>, Ok(<<>>), <<>>, <<>>)

\* the &CStr values safe code can borrow without a CString of its own: the
\* successful results of CStr::from_bytes_with_nul and the default
SafeCStrs ==
    {from_bytes_with_nul(b).val : b \in {c \in ByteSeqs : from_bytes_with_nul(c).ok}}
        \cup {CStr_default}

NoneLive == cs = None /\ boxed = None

\* let cs = CString::new(b)
New(b) ==
    /\ NoneLive
    /\ LET r == CString_new(b)
       IN  /\ cs' = IF r.ok THEN Some(r.val) ELSE None
           /\ out' = Out("new", b, r, <<>>, <<>>)
    /\ UNCHANGED <<boxed, svars, nvars, evars, ivars, pvars, gvars, tvars>>

\* let cs = CString::from_vec_with_nul(v)
FromVecWithNul(v) ==
    /\ NoneLive
    /\ LET r == from_vec_with_nul(v)
       IN  /\ cs' = IF r.ok THEN Some(r.val) ELSE None
           /\ out' = Out("from_vec_with_nul", v, r, <<>>, <<>>)
    /\ UNCHANGED <<boxed, svars, nvars, evars, ivars, pvars, gvars, tvars>>

\* let cs = CString::default()
Default ==
    /\ NoneLive
    /\ cs' = Some(CString_default)
    /\ out' = Out("default", <<>>, Ok(CString_default), <<>>, <<>>)
    /\ UNCHANGED <<boxed, svars, nvars, evars, ivars, pvars, gvars, tvars>>

\* let cs = CString::from(v), v: Vec<NonZeroU8>
FromNonZero(v) ==
    /\ NoneLive
    /\ cs' = Some(CString_from_nonzero(v))
    /\ out' = Out("from_nonzero", v, Ok(CString_from_nonzero(v)), <<>>, <<>>)
    /\ UNCHANGED <<boxed, svars, nvars, evars, ivars, pvars, gvars, tvars>>

\* let cs = s.to_owned(), s: &CStr
ToOwned(s) ==
    /\ NoneLive
    /\ cs' = Some(to_owned(s))
    /\ out' = Out("to_owned", to_bytes_with_nul(s), Ok(to_owned(s)), <<>>, <<>>)
    /\ UNCHANGED <<boxed, svars, nvars, evars, ivars, pvars, gvars, tvars>>

\* s.clone_into(&mut cs), s: &CStr
CloneInto(s) ==
    /\ cs # None
    /\ cs' = Some(clone_into(s, cs[1]))
    /\ out' = Out("clone_into", to_bytes_with_nul(s), Ok(<<>>), <<>>, <<>>)
    /\ UNCHANGED <<boxed, svars, nvars, evars, ivars, pvars, gvars, tvars>>

\* cs = cs.clone(): the clone replaces the original, which is dropped
Clone ==
    /\ cs # None
    /\ cs' = Some(CString_clone(cs[1]))
    /\ out' = Out("clone", <<>>, Ok(CString_clone(cs[1])), cs[1].inner,
                  CString_drop(cs[1]).inner)
    /\ UNCHANGED <<boxed, svars, nvars, evars, ivars, pvars, gvars, tvars>>

\* the CString goes out of scope: Drop::drop, then the box is released
Drop ==
    /\ cs # None
    /\ cs' = None
    /\ out' = Out("drop", <<>>, Ok(<<>>), cs[1].inner, CString_drop(cs[1]).inner)
    /\ UNCHANGED <<boxed, svars, nvars, evars, ivars, pvars, gvars, tvars>>

\* cs.into_bytes()
IntoBytes ==
    /\ cs # None
    /\ cs' = None
    /\ out' = Out("into_bytes", <<>>, Ok(into_bytes(cs[1])), cs[1].inner,
                  into_inner(cs[1]))
    /\ UNCHANGED <<boxed, svars, nvars, evars, ivars, pvars, gvars, tvars>>

\* cs.into_bytes_with_nul()
IntoBytesWithNul ==
    /\ cs # None
    /\ cs' = None
    /\ out' = Out("into_bytes_with_nul", <<>>, Ok(into_bytes_with_nul(cs[1])),
                  cs[1].inner, into_inner(cs[1]))
    /\ UNCHANGED <<boxed, svars, nvars, evars, ivars, pvars, gvars, tvars>>

\* cs.into_raw()
IntoRaw ==
    /\ cs # None
    /\ cs' = None
    /\ out' = Out("into_raw", <<>>, Ok(into_raw(cs[1])), cs[1].inner,
                  into_inner(cs[1]))
    /\ UNCHANGED <<boxed, svars, nvars, evars, ivars, pvars, gvars, tvars>>

\* Arc::<CStr>::from(cs)
IntoArc ==
    /\ cs # None
    /\ cs' = None
    /\ out' = Out("into_arc", <<>>, Ok(Arc_from(cs[1])), cs[1].inner,
                  into_inner(cs[1]))
    /\ UNCHANGED <<boxed, svars, nvars, evars, ivars, pvars, gvars, tvars>>

\* Rc::<CStr>::from(cs)
IntoRc ==
    /\ cs # None
    /\ cs' = None
    /\ out' = Out("into_rc", <<>>, Ok(Rc_from(cs[1])), cs[1].inner,
                  into_inner(cs[1]))
    /\ UNCHANGED <<boxed, svars, nvars, evars, ivars, pvars, gvars, tvars>>

\* cs.into_string(): the String, or the IntoStringError holding a CString
IntoString ==
    /\ cs # None
    /\ cs' = None
    /\ out' = Out("into_string", <<>>, into_string(cs[1]), cs[1].inner,
                  into_inner(cs[1]))
    /\ UNCHANGED <<boxed, svars, nvars, evars, ivars, pvars, gvars, tvars>>

\* let cs = e.into_cstring(), e the IntoStringError just returned
IntoCStringOfError ==
    /\ NoneLive
    /\ out.op = "into_string"
    /\ ~out.res.ok
    /\ cs' = Some(into_cstring(out.res.err))
    /\ out' = Out("into_cstring", <<>>, Ok(into_cstring(out.res.err)),
                  out.before, <<>>)
    /\ UNCHANGED <<boxed, svars, nvars, evars, ivars, pvars, gvars, tvars>>

\* the IntoStringError just returned goes out of scope: its CString is dropped
DropError ==
    /\ NoneLive
    /\ out.op = "into_string"
    /\ ~out.res.ok
    /\ out' = Out("drop_error", <<>>, Ok(<<>>), out.res.err.inner.inner,
                  CString_drop(out.res.err.inner).inner)
    /\ UNCHANGED <<cs, boxed, svars, nvars, evars, ivars, pvars, gvars, tvars>>

\* let boxed = cs.into_boxed_c_str()
IntoBoxedCStr ==
    /\ cs # None
    /\ boxed = None
    /\ boxed' = Some(into_boxed_c_str(cs[1]))
    /\ cs' = None
    /\ out' = Out("into_boxed_c_str", <<>>, Ok(into_boxed_c_str(cs[1])),
                  cs[1].inner, into_inner(cs[1]))
    /\ UNCHANGED <<svars, nvars, evars, ivars, pvars, gvars, tvars>>

\* let cs = boxed.into_c_string()
IntoCString ==
    /\ boxed # None
    /\ cs = None
    /\ cs' = Some(into_c_string(boxed[1]))
    /\ boxed' = None
    /\ out' = Out("into_c_string", <<>>, Ok(into_c_string(boxed[1])), <<>>, <<>>)
    /\ UNCHANGED <<svars, nvars, evars, ivars, pvars, gvars, tvars>>

\* the Box<CStr> goes out of scope: no Drop impl of its own, the box is freed
DropBox ==
    /\ boxed # None
    /\ boxed' = None
    /\ out' = Out("drop_box", <<>>, Ok(<<>>), <<>>, boxed[1].inner)
    /\ UNCHANGED <<cs, svars, nvars, evars, ivars, pvars, gvars, tvars>>

----------------------------------------------------------------------------
(* The unsafe constructors of CString, called with any vector *)

\* what self.inner.len() - 1 and get_unchecked do on an empty buffer: a
\* panic on the subtraction in a build that checks overflow, a read outside
\* the buffer otherwise
AsBytesOutOfBounds == {"panic", "read_outside_buffer"}
\* what get_unchecked_mut(0) does on an empty buffer: the write lands
\* outside the buffer or faults
DropOutOfBounds == {"write_outside_buffer", "fault"}

\* let cs = unsafe { CString::from_vec_unchecked(v) }
UnsafeFromVec(v) ==
    /\ NoneLive
    /\ cs' = Some(from_vec_unchecked(v))
    /\ out' = Out("from_vec_unchecked", v, Ok(from_vec_unchecked(v)), <<>>, <<>>)
    /\ UNCHANGED <<boxed, svars, nvars, evars, ivars, pvars, gvars, tvars>>

\* let cs = unsafe { CString::from_vec_with_nul_unchecked(v) }
UnsafeFromVecWithNul(v) ==
    /\ NoneLive
    /\ cs' = Some(from_vec_with_nul_unchecked(v))
    /\ out' = Out("from_vec_with_nul_unchecked", v,
                  Ok(from_vec_with_nul_unchecked(v)), <<>>, <<>>)
    /\ UNCHANGED <<boxed, svars, nvars, evars, ivars, pvars, gvars, tvars>>

\* cs.as_bytes(): self.inner.get_unchecked(..self.inner.len() - 1)
UnsafeAsBytes ==
    /\ cs # None
    /\ IF Len(cs[1].inner) >= 1
       THEN out' = Out("as_bytes", <<>>, Ok(as_bytes(cs[1])), cs[1].inner, <<>>)
       ELSE \E o \in AsBytesOutOfBounds :
               out' = Out("as_bytes", <<>>, Err(o), cs[1].inner, <<>>)
    /\ UNCHANGED <<cs, boxed, svars, nvars, evars, ivars, pvars, gvars, tvars>>

\* cs goes out of scope: *self.inner.get_unchecked_mut(0) = 0
UnsafeDrop ==
    /\ cs # None
    /\ cs' = None
    /\ IF Len(cs[1].inner) >= 1
       THEN out' = Out("drop", <<>>, Ok(<<>>), cs[1].inner, CString_drop(cs[1]).inner)
       ELSE \E o \in DropOutOfBounds :
               out' = Out("drop", <<>>, Err(o), cs[1].inner, <<>>)
    /\ UNCHANGED <<boxed, svars, nvars, evars, ivars, pvars, gvars, tvars>>

----------------------------------------------------------------------------
(* Equality and ordering of CStr *)

\* <[u8] as PartialEq>::eq as called by CStr::eq: equal lengths, equal bytes
slice_eq(a, b) ==
    /\ Len(a) = Len(b)
    /\ \A i \in 1..Len(a) : a[i] = b[i]

OrderingOf(m, n) == IF m < n THEN "Less" ELSE IF m = n THEN "Equal" ELSE "Greater"

\* <[u8] as Ord>::cmp as called by CStr::cmp: the first differing byte of
\* the common prefix decides, then the lengths
RECURSIVE slice_cmp_from(_, _, _)
slice_cmp_from(a, b, i) ==
    LET l == IF Len(a) < Len(b) THEN Len(a) ELSE Len(b)
    IN  IF i > l THEN OrderingOf(Len(a), Len(b))
        ELSE IF a[i] # b[i] THEN OrderingOf(a[i], b[i])
        ELSE slice_cmp_from(a, b, i + 1)

slice_cmp(a, b) == slice_cmp_from(a, b, 1)

\* a comparison that looks at the lengths before the bytes
CStr_cmp_lengths_first(self, other) ==
    IF Len(to_bytes(self)) # Len(to_bytes(other))
    THEN OrderingOf(Len(to_bytes(self)), Len(to_bytes(other)))
    ELSE slice_cmp(to_bytes(self), to_bytes(other))

\* PartialEq for CStr
CStr_eq(self, other) == slice_eq(to_bytes(self), to_bytes(other))

\* Ord for CStr
CStr_cmp(self, other) == slice_cmp(to_bytes(self), to_bytes(other))

\* PartialOrd for CStr
CStr_partial_cmp(self, other) == Some(slice_cmp(to_bytes(self), to_bytes(other)))

----------------------------------------------------------------------------
(* The CStr program: two byte slices are parsed into borrowed C strings,   *)
(* which are then compared.                                                *)

NoCmp == [op |-> "init", arg |-> <<>>, res |-> Ok(<<>>)]

\* let x = CStr::from_bytes_with_nul(bytes)?
BorrowX(bytes) ==
    /\ x = None /\ y = None
    /\ LET r == from_bytes_with_nul(bytes)
       IN  /\ x' = IF r.ok THEN Some(r.val) ELSE None
           /\ cmpres' = [op |-> "from_bytes_with_nul", arg |-> bytes, res |-> r]
    /\ UNCHANGED <<y, cvars, nvars, evars, ivars, pvars, gvars, tvars>>

\* let y = CStr::from_bytes_with_nul(bytes)?  (an error ends both borrows)
BorrowY(bytes) ==
    /\ x # None /\ y = None
    /\ LET r == from_bytes_with_nul(bytes)
       IN  /\ y' = IF r.ok THEN Some(r.val) ELSE None
           /\ x' = IF r.ok THEN x ELSE None
           /\ cmpres' = [op |-> "from_bytes_with_nul", arg |-> bytes, res |-> r]
    /\ UNCHANGED <<cvars, nvars, evars, ivars, pvars, gvars, tvars>>

\* x == y, x.partial_cmp(y), x.cmp(y)
Compare ==
    /\ x # None /\ y # None
    /\ cmpres' = [op |-> "cmp", arg |-> <<>>,
                  res |-> [eq |-> CStr_eq(x[1], y[1]),
                           partial_cmp |-> CStr_partial_cmp(x[1], y[1]),
                           cmp |-> CStr_cmp(x[1], y[1])]]
    /\ UNCHANGED <<x, y, cvars, nvars, evars, ivars, pvars, gvars, tvars>>

\* both borrows end
EndBorrow ==
    /\ x # None
    /\ x' = None
    /\ y' = None
    /\ cmpres' = NoCmp
    /\ UNCHANGED <<cvars, nvars, evars, ivars, pvars, gvars, tvars>>

----------------------------------------------------------------------------
(* net::each_addr *)

\* the socket addresses a resolution may yield
Addr == {"A", "B", "C"}
\* the values the wrapped operation may return
Value == {"sock1", "sock2"}
\* the errors the wrapped operation or the resolution may return
IoError == {"ConnectionRefused", "TimedOut"}
\* the same message under another error kind
NoAddressesError_not_found ==
    [kind |-> "NotFound", msg |-> "could not resolve to any addresses"]

\* Error::new_const(ErrorKind::InvalidInput, "could not resolve to any addresses")
NoAddressesError ==
    [kind |-> "InvalidInput", msg |-> "could not resolve to any addresses"]

FResult == {Ok(v) : v \in Value} \cup {Err(e) : e \in IoError}

\* the closure f (an FnMut), as the result of each of its n invocations
Closures(n) == [1..n -> FResult]
NoClosure == <<>>

\* each_addr is called: addr.to_socket_addrs() is evaluated
Resolve ==
    /\ pc = "idle"
    /\ \E r \in {Ok(as) : as \in SeqsUpTo(Addr, MaxAddrs)} \cup {Err(e) : e \in IoError} :
          /\ resolved' = Some(r)
          /\ \E g \in Closures(IF r.ok THEN Len(r.val) ELSE 1) : f' = g
          /\ IF r.ok
             THEN /\ addrs' = r.val
                  /\ pc' = "loop"
             ELSE /\ addrs' = <<>>
                  /\ pc' = "resolve_failed"
    /\ last_err' = None
    /\ calls' = <<>>
    /\ ret' = None
    /\ UNCHANGED <<cvars, svars, evars, ivars, pvars, gvars, tvars>>

\* a resolution failure that is returned as it is, without calling f
ResolveFailedPropagates ==
    /\ pc = "resolve_failed"
    /\ ret' = Some(Err(resolved[1].err))
    /\ pc' = "done"
    /\ UNCHANGED <<resolved, f, addrs, last_err, calls, cvars, svars, evars, ivars, pvars, gvars, tvars>>

\* Err(e) => return f(Err(e))
ResolveFailed ==
    /\ pc = "resolve_failed"
    /\ calls' = Append(calls, [arg |-> Err(resolved[1].err), res |-> f[1]])
    /\ ret' = Some(f[1])
    /\ pc' = "done"
    /\ UNCHANGED <<resolved, f, addrs, last_err, cvars, svars, evars, ivars, pvars, gvars, tvars>>

\* an attempt that takes a success for final only on the last candidate
AttemptLastOnly ==
    /\ pc = "loop"
    /\ addrs # <<>>
    /\ LET addr == Head(addrs)
           r == f[Len(calls) + 1]
       IN  /\ calls' = Append(calls, [arg |-> Ok(addr), res |-> r])
           /\ IF r.ok /\ Tail(addrs) = <<>>
              THEN /\ ret' = Some(Ok(r.val))
                   /\ pc' = "done"
                   /\ UNCHANGED <<addrs, last_err>>
              ELSE /\ last_err' = IF r.ok THEN last_err ELSE Some(r.err)
                   /\ addrs' = Tail(addrs)
                   /\ UNCHANGED <<ret, pc>>
    /\ UNCHANGED <<resolved, f, cvars, svars, evars, ivars, pvars, gvars, tvars>>

\* an assignment that keeps the first error
KeepFirstErr(last, e) == IF last = None THEN Some(e) ELSE last

\* Err(e) => last_err = Some(e)
SetLastErr(last, e) == Some(e)

\* an attempt that takes the candidates from the back
AttemptReversed ==
    /\ pc = "loop"
    /\ addrs # <<>>
    /\ LET addr == addrs[Len(addrs)]
           r == f[Len(calls) + 1]
       IN  /\ calls' = Append(calls, [arg |-> Ok(addr), res |-> r])
           /\ IF r.ok
              THEN /\ ret' = Some(Ok(r.val))
                   /\ pc' = "done"
                   /\ UNCHANGED <<addrs, last_err>>
              ELSE /\ last_err' = SetLastErr(last_err, r.err)
                   /\ addrs' = SubSeq(addrs, 1, Len(addrs) - 1)
                   /\ UNCHANGED <<ret, pc>>
    /\ UNCHANGED <<resolved, f, cvars, svars, evars, ivars, pvars, gvars, tvars>>

\* one turn of `for addr in addrs`: f(Ok(&addr)), return on Ok, remember the
\* error otherwise
Attempt ==
    /\ pc = "loop"
    /\ addrs # <<>>
    /\ LET addr == Head(addrs)
           r == f[Len(calls) + 1]
       IN  /\ calls' = Append(calls, [arg |-> Ok(addr), res |-> r])
           /\ IF r.ok
              THEN /\ ret' = Some(Ok(r.val))
                   /\ pc' = "done"
                   /\ UNCHANGED <<addrs, last_err>>
              ELSE /\ last_err' = SetLastErr(last_err, r.err)
                   /\ addrs' = Tail(addrs)
                   /\ UNCHANGED <<ret, pc>>
    /\ UNCHANGED <<resolved, f, cvars, svars, evars, ivars, pvars, gvars, tvars>>

\* the loop is over: Err(last_err.unwrap_or_else(|| "could not resolve ..."))
Exhausted ==
    /\ pc = "loop"
    /\ addrs = <<>>
    /\ ret' = Some(Err(IF last_err # None THEN last_err[1] ELSE NoAddressesError))
    /\ pc' = "done"
    /\ UNCHANGED <<resolved, f, addrs, last_err, calls, cvars, svars, evars, ivars, pvars, gvars, tvars>>

\* the caller takes the result; each_addr may be called again
Return ==
    /\ pc = "done"
    /\ pc' = "idle"
    /\ resolved' = None
    /\ f' = NoClosure
    /\ addrs' = <<>>
    /\ last_err' = None
    /\ calls' = <<>>
    /\ ret' = None
    /\ UNCHANGED <<cvars, svars, evars, ivars, pvars, gvars, tvars>>

----------------------------------------------------------------------------
(* env: environment variables, sgx_tstd/src/env.rs over sys::os *)

\* the names the operations are called with: "K", "L", "K=", "K\0" and ""
EnvKey == {<<75>>, <<76>>, <<75, 61>>, <<75, 0>>, <<>>}
\* the values: "A", the two-byte U+00E9, the lone continuation byte 0xA9
\* (not UTF-8) and "A\0"
EnvValue == {<<65>>, <<195, 169>>, <<169>>, <<65, 0>>}
\* whether the host serves a boundary call or rejects it
Host == {"served", "rejected"}

\* a call that returns v / a call that panics
Returned(v) == [panic |-> FALSE, val |-> v]
Panic(msg, e) == [panic |-> TRUE, msg |-> msg, err |-> e]

\* io::Error values of sys::os
NulInKey == [kind |-> "InvalidInput", msg |-> "data provided contains a nul byte"]
HostRejected == [kind |-> "Other", msg |-> "host rejected the call"]
InvalidArgument == [kind |-> "InvalidInput", msg |-> "invalid argument"]

\* enum VarError
NotPresent == [kind |-> "NotPresent"]
NotUnicode(s) == [kind |-> "NotUnicode", os |-> s]

\* the value stored under key k, None when there is none
Lookup(e, k) ==
    IF \E i \in 1..Len(e) : e[i][1] = k
    THEN Some(e[CHOOSE i \in 1..Len(e) : e[i][1] = k][2])
    ELSE None

\* the environment with k set to v: in place when k is there, at the end
\* otherwise
Put(e, k, v) ==
    IF Lookup(e, k) # None
    THEN [i \in 1..Len(e) |-> IF e[i][1] = k THEN <<k, v>> ELSE e[i]]
    ELSE Append(e, <<k, v>>)

\* the environment without k
Remove(e, k) == SelectSeq(e, LAMBDA p : p[1] # k)

\* whether the host accepts k as the name of a variable to set or unset
HostAcceptsName(k) == k # <<>> /\ \A i \in 1..Len(k) : k[i] # 61

\* os_imp::getenv: the key becomes a C string inside the enclave, then one
\* boundary call looks it up
getenv(e, k, host) ==
    IF ~CString_new(k).ok THEN [res |-> Err(NulInKey), crossings |-> 0]
    ELSE IF host = "rejected" THEN [res |-> Err(HostRejected), crossings |-> 1]
    ELSE [res |-> Ok(Lookup(e, k)), crossings |-> 1]

\* os_imp::setenv
setenv(e, k, v, host) ==
    IF ~CString_new(k).ok \/ ~CString_new(v).ok
    THEN [res |-> Err(NulInKey), env |-> e, crossings |-> 0]
    ELSE IF host = "rejected"
    THEN [res |-> Err(HostRejected), env |-> e, crossings |-> 1]
    ELSE IF ~HostAcceptsName(k)
    THEN [res |-> Err(InvalidArgument), env |-> e, crossings |-> 1]
    ELSE [res |-> Ok(<<>>), env |-> Put(e, k, v), crossings |-> 1]

\* os_imp::unsetenv
unsetenv(e, k, host) ==
    IF ~CString_new(k).ok
    THEN [res |-> Err(NulInKey), env |-> e, crossings |-> 0]
    ELSE IF host = "rejected"
    THEN [res |-> Err(HostRejected), env |-> e, crossings |-> 1]
    ELSE IF ~HostAcceptsName(k)
    THEN [res |-> Err(InvalidArgument), env |-> e, crossings |-> 1]
    ELSE [res |-> Ok(<<>>), env |-> Remove(e, k), crossings |-> 1]

\* OsString::into_string: Ok(String) or Err(the OsString itself)
OsString_into_string(s) ==
    LET r == String_from_utf8(s)
    IN  IF r.ok THEN r ELSE Err(r.err.bytes)

\* fn _var_os(key): os_imp::getenv(key).unwrap_or_else(|e| panic!(..))
_var_os(e, key, host) ==
    LET r == getenv(e, key, host).res
    IN  IF r.ok THEN Returned(r.val)
        ELSE Panic("failed to get environment variable", r.err)

\* pub fn var_os(key)
var_os(e, key, host) == _var_os(e, key, host)

\* a _var that reports a value that is not UTF-8 as absent
_var_lossy(e, key, host) ==
    LET o == var_os(e, key, host)
    IN  IF o.panic THEN o
        ELSE IF o.val = None THEN Returned(Err(NotPresent))
        ELSE LET r == OsString_into_string(o.val[1])
             IN  Returned(IF r.ok THEN r
                          ELSE Err(NotPresent))

\* fn _var(key): match var_os(key) { Some(s) =>
\* s.into_string().map_err(VarError::NotUnicode), None => Err(NotPresent) }
_var(e, key, host) ==
    LET o == var_os(e, key, host)
    IN  IF o.panic THEN o
        ELSE IF o.val = None THEN Returned(Err(NotPresent))
        ELSE LET r == OsString_into_string(o.val[1])
             IN  Returned(IF r.ok THEN r ELSE Err(NotUnicode(r.err)))

\* pub fn var(key)
var(e, key, host) == _var(e, key, host)

\* a _set_var that hands its arguments over in the other order
_set_var_swapped(e, key, value, host) ==
    LET r == setenv(e, value, key, host)
    IN  [out |-> IF r.res.ok THEN Returned(<<>>)
                 ELSE Panic("failed to set environment variable", r.res.err),
         env |-> r.env]

\* fn _set_var(key, value): os_imp::setenv(key, value).unwrap_or_else(|e|
\* panic!(..)); the result and the environment it leaves
_set_var(e, key, value, host) ==
    LET r == setenv(e, key, value, host)
    IN  [out |-> IF r.res.ok THEN Returned(<<>>)
                 ELSE Panic("failed to set environment variable", r.res.err),
         env |-> r.env]

\* pub fn set_var(key, value)
set_var(e, key, value, host) == _set_var(e, key, value, host)

\* a _remove_var that drops the error of unsetenv
_remove_var_silent(e, key, host) ==
    LET r == unsetenv(e, key, host)
    IN  [out |-> Returned(<<>>), env |-> r.env]

\* fn _remove_var(key): os_imp::unsetenv(key).unwrap_or_else(|e| panic!(..))
_remove_var(e, key, host) ==
    LET r == unsetenv(e, key, host)
    IN  [out |-> IF r.res.ok THEN Returned(<<>>)
                 ELSE Panic("failed to remove environment variable", r.res.err),
         env |-> r.env]

\* pub fn remove_var(key)
remove_var(e, key, host) == _remove_var(e, key, host)

\* struct Env of sys::os and os_imp::env(): the environment is read once,
\* into a vector of pairs the iterator owns
os_env(e) == [iter |-> e]

\* Iterator for Env: the next pair of the vector
Env_next(self) ==
    IF self.iter = <<>> THEN [item |-> None, self |-> self]
    ELSE [item |-> Some(Head(self.iter)), self |-> [iter |-> Tail(self.iter)]]

\* pub fn vars_os() -> VarsOs { VarsOs { inner: os_imp::env() } }
vars_os(e) == [inner |-> os_env(e)]

\* pub fn vars() -> Vars { Vars { inner: vars_os() } }
env_vars(e) == [inner |-> vars_os(e)]

\* a next that advances the inner iterator twice and returns the second pair
VarsOs_next_skipping(self) ==
    LET n == Env_next(Env_next(self.inner).self)
    IN  [item |-> n.item, self |-> [inner |-> n.self]]

\* Iterator for VarsOs: self.inner.next()
VarsOs_next(self) ==
    LET n == Env_next(self.inner)
    IN  [item |-> n.item, self |-> [inner |-> n.self]]

\* Iterator for Vars: self.inner.next().map(|(a, b)|
\* (a.into_string().unwrap(), b.into_string().unwrap()))
Vars_next(self) ==
    LET n == VarsOs_next(self.inner)
    IN  [out |-> IF n.item = None THEN Returned(None)
                 ELSE LET a == OsString_into_string(n.item[1][1])
                          b == OsString_into_string(n.item[1][2])
                      IN  IF ~a.ok
                          THEN Panic("called Result::unwrap() on an Err value", a.err)
                          ELSE IF ~b.ok
                          THEN Panic("called Result::unwrap() on an Err value", b.err)
                          ELSE Returned(Some(<<a.val, b.val>>)),
         self |-> [inner |-> n.self]]

\* what an env operation did: the operation and its arguments, whether the
\* host served its boundary call, what sys::os returned and how many times
\* it crossed the boundary, and how the operation ended
EnvOut(op, key, value, host, sys, ended) ==
    [op |-> op, key |-> key, value |-> value, host |-> host,
     sys |-> [res |-> sys.res, crossings |-> sys.crossings], out |-> ended]
NoEnvOut ==
    [op |-> "none", key |-> <<>>, value |-> None, host |-> "served",
     sys |-> [res |-> Ok(<<>>), crossings |-> 0], out |-> Returned(<<>>)]

\* env::set_var(k, v)
SetVar(k, v, host) ==
    LET r == set_var(env, k, v, host)
    IN  /\ env' = r.env
        /\ hist' = IF r.out.panic THEN hist ELSE [hist EXCEPT ![k] = Some(v)]
        /\ eout' = EnvOut("set_var", k, Some(v), host, setenv(env, k, v, host), r.out)
        /\ UNCHANGED <<cvars, svars, nvars, ivars, pvars, gvars, tvars>>

\* env::remove_var(k)
RemoveVar(k, host) ==
    LET r == remove_var(env, k, host)
    IN  /\ env' = r.env
        /\ hist' = IF r.out.panic THEN hist ELSE [hist EXCEPT ![k] = None]
        /\ eout' = EnvOut("remove_var", k, None, host, unsetenv(env, k, host), r.out)
        /\ UNCHANGED <<cvars, svars, nvars, ivars, pvars, gvars, tvars>>

\* env::var_os(k)
VarOs(k, host) ==
    /\ eout' = EnvOut("var_os", k, None, host, getenv(env, k, host),
                      var_os(env, k, host))
    /\ UNCHANGED <<env, hist, cvars, svars, nvars, ivars, pvars, gvars, tvars>>

\* env::var(k)
Var(k, host) ==
    /\ eout' = EnvOut("var", k, None, host, getenv(env, k, host),
                      var(env, k, host))
    /\ UNCHANGED <<env, hist, cvars, svars, nvars, ivars, pvars, gvars, tvars>>

\* what a call of next() did
ItOut(ended) == [called |-> TRUE, out |-> ended]
NoItOut == [called |-> FALSE, out |-> Returned(None)]

\* let it = env::vars_os()
CallVarsOs ==
    /\ it = None
    /\ it' = Some([kind |-> "VarsOs", iter |-> vars_os(env)])
    /\ snapshot' = env
    /\ yielded' = <<>>
    /\ itout' = NoItOut
    /\ UNCHANGED <<cvars, svars, nvars, evars, pvars, gvars, tvars>>

\* let it = env::vars()
CallVars ==
    /\ it = None
    /\ it' = Some([kind |-> "Vars", iter |-> env_vars(env)])
    /\ snapshot' = env
    /\ yielded' = <<>>
    /\ itout' = NoItOut
    /\ UNCHANGED <<cvars, svars, nvars, evars, pvars, gvars, tvars>>

\* it.next() on a VarsOs
NextVarsOsItem ==
    /\ it # None
    /\ it[1].kind = "VarsOs"
    /\ LET n == VarsOs_next(it[1].iter)
       IN  /\ it' = Some([kind |-> "VarsOs", iter |-> n.self])
           /\ itout' = ItOut(Returned(n.item))
           /\ yielded' = IF n.item = None THEN yielded
                         ELSE Append(yielded, n.item[1])
    /\ UNCHANGED <<snapshot, cvars, svars, nvars, evars, pvars, gvars, tvars>>

\* it.next() on a Vars; a panic unwinds through the owner of the iterator,
\* which drops it
NextVarsItem ==
    /\ it # None
    /\ it[1].kind = "Vars"
    /\ LET n == Vars_next(it[1].iter)
       IN  /\ it' = IF n.out.panic THEN None
                    ELSE Some([kind |-> "Vars", iter |-> n.self])
           /\ itout' = ItOut(n.out)
           /\ yielded' = IF n.out.panic \/ n.out.val = None THEN yielded
                         ELSE Append(yielded, <<n.out.val[1][1].vec,
                                                n.out.val[1][2].vec>>)
    /\ UNCHANGED <<snapshot, cvars, svars, nvars, evars, pvars, gvars, tvars>>

\* the iterator is dropped
DropIter ==
    /\ it # None
    /\ it' = None
    /\ snapshot' = <<>>
    /\ yielded' = <<>>
    /\ itout' = NoItOut
    /\ UNCHANGED <<cvars, svars, nvars, evars, pvars, gvars, tvars>>

----------------------------------------------------------------------------
(* env: split_paths and join_paths, sgx_tstd/src/env.rs over sys::os *)

\* const PATH_SEPARATOR: u8 = b':'
PATH_SEPARATOR == 58
\* the bytes of path lists: ':' and 'a'
PathByte == {58, 97}
\* the strings split_paths is given, the paths and the lists of paths
\* join_paths is given
PathStrings == SeqsUpTo(PathByte, MaxPathLen)
PathEntries == SeqsUpTo(PathByte, MaxEntryLen)
PathLists == SeqsUpTo(PathEntries, MaxEntries)

HasSeparator(b) == \E i \in 1..Len(b) : b[i] = PATH_SEPARATOR

\* unparsed.split(is_separator): the pieces between the separators, one
\* (empty) piece for the empty slice
RECURSIVE slice_split(_)
slice_split(b) ==
    IF ~HasSeparator(b) THEN <<b>>
    ELSE LET i == CHOOSE j \in 1..Len(b) :
                      /\ b[j] = PATH_SEPARATOR
                      /\ \A m \in 1..(j - 1) : b[m] # PATH_SEPARATOR
         IN  <<SubSeq(b, 1, i - 1)>> \o slice_split(SubSeq(b, i + 1, Len(b)))

\* os_imp::split_paths: the iterator over the pieces, as paths
os_split_paths(unparsed) == [iter |-> slice_split(unparsed)]

\* Iterator for the SplitPaths of sys::os
os_SplitPaths_next(self) ==
    IF self.iter = <<>> THEN [item |-> None, self |-> self]
    ELSE [item |-> Some(Head(self.iter)), self |-> [iter |-> Tail(self.iter)]]

\* os_imp::join_paths: the paths with a separator between neighbours, an
\* error when a path holds the separator
RECURSIVE os_join_from(_, _, _)
os_join_from(paths, i, joined) ==
    IF i > Len(paths) THEN Ok(joined)
    ELSE LET sep == IF i > 1 THEN <<PATH_SEPARATOR>> ELSE <<>>
         IN  IF HasSeparator(paths[i])
             THEN Err([kind |-> "path segment contains separator"])
             ELSE os_join_from(paths, i + 1, joined \o sep \o paths[i])
os_join_paths(paths) == os_join_from(paths, 1, <<>>)

\* pub fn split_paths(unparsed) -> SplitPaths
split_paths(unparsed) == [inner |-> os_split_paths(unparsed)]

\* a next that returns every other path
SplitPaths_next_skipping(self) ==
    LET n == os_SplitPaths_next(os_SplitPaths_next(self.inner).self)
    IN  [item |-> n.item, self |-> [inner |-> n.self]]

\* Iterator for SplitPaths: self.inner.next()
SplitPaths_next(self) ==
    LET n == os_SplitPaths_next(self.inner)
    IN  [item |-> n.item, self |-> [inner |-> n.self]]

\* struct JoinPathsError { inner: os_imp::JoinPathsError }
JoinPathsError(inner) == [inner |-> inner]

\* a join_paths that hands the paths over without the first one
join_paths_skip_first(paths) ==
    LET r == os_join_paths(IF paths = <<>> THEN paths ELSE Tail(paths))
    IN  IF r.ok THEN r ELSE Err(JoinPathsError(r.err))

\* a join_paths that takes the error of sys::os for an empty result
join_paths_unwrap_or_default(paths) ==
    LET r == os_join_paths(paths)
    IN  IF r.ok THEN r ELSE Ok(<<>>)

\* pub fn join_paths(paths):
\* os_imp::join_paths(paths.into_iter()).map_err(|e| JoinPathsError { inner: e })
join_paths(paths) ==
    LET r == os_join_paths(paths)
    IN  IF r.ok THEN r ELSE Err(JoinPathsError(r.err))

\* split_paths(..).collect::<Vec<_>>()
RECURSIVE collect(_)
collect(iter) ==
    LET n == SplitPaths_next(iter)
    IN  IF n.item = None THEN <<>> ELSE <<n.item[1]>> \o collect(n.self)

\* what a composition did: its input, the intermediate value and the result
PathOut(op, input, mid, res) == [op |-> op, input |-> input, mid |-> mid, res |-> res]
NoPathOut == PathOut("none", <<>>, <<>>, Ok(<<>>))

\* env::join_paths(env::split_paths(s))
SplitThenJoin(s) ==
    /\ pout = NoPathOut
    /\ LET paths == collect(split_paths(s))
       IN  pout' = PathOut("split_join", s, paths, join_paths(paths))
    /\ UNCHANGED <<cvars, svars, nvars, evars, ivars, gvars, tvars>>

\* env::split_paths(&env::join_paths(paths)?).collect()
JoinThenSplit(paths) ==
    /\ pout = NoPathOut
    /\ LET r == join_paths(paths)
       IN  pout' = PathOut("join_split", paths, r,
                           IF r.ok THEN Ok(collect(split_paths(r.val))) ELSE r)
    /\ UNCHANGED <<cvars, svars, nvars, evars, ivars, gvars, tvars>>

\* the caller takes the result
PathsDone ==
    /\ pout # NoPathOut
    /\ pout' = NoPathOut
    /\ UNCHANGED <<cvars, svars, nvars, evars, ivars, gvars, tvars>>

----------------------------------------------------------------------------
(* Index<RangeFrom<usize>> for CStr; the derived comparisons of CString *)

\* the starts a CStr is indexed with
IndexStart == 0..(MaxLen + 1)

\* an index that lets the start be the length itself
CStr_index_from_inclusive(self, start) ==
    LET bytes == to_bytes_with_nul(self)
    IN  IF start <= Len(bytes)
        THEN Returned(from_bytes_with_nul_unchecked(SubSeq(bytes, start + 1, Len(bytes))))
        ELSE Panic("index out of bounds", [len |-> Len(bytes), index |-> start])

\* fn index(&self, index: RangeFrom<usize>) -> &CStr: &bytes[index.start..]
\* when index.start < bytes.len(), a panic otherwise
CStr_index_from(self, start) ==
    LET bytes == to_bytes_with_nul(self)
    IN  IF start < Len(bytes)
        THEN Returned(from_bytes_with_nul_unchecked(SubSeq(bytes, start + 1, Len(bytes))))
        ELSE Panic("index out of bounds", [len |-> Len(bytes), index |-> start])

\* #[derive(PartialEq)] on struct CString { inner: Box<[u8]> }
CString_eq(self, other) == slice_eq(self.inner, other.inner)

\* an ordering with its operands exchanged
CString_cmp_exchanged(self, other) == slice_cmp(other.inner, self.inner)

\* #[derive(Ord)] on struct CString
CString_cmp(self, other) == slice_cmp(self.inner, other.inner)

\* #[derive(PartialOrd)] on struct CString
CString_partial_cmp(self, other) == Some(CString_cmp(self, other))

\* &x[start..]
IndexFrom(start) ==
    /\ x # None
    /\ cmpres' = [op |-> "index", arg |-> <<start>>, res |-> CStr_index_from(x[1], start)]
    /\ UNCHANGED <<x, y, cvars, nvars, evars, ivars, pvars, gvars, tvars>>

\* a == b, a.partial_cmp(&b), a.cmp(&b) for the owned a = x.to_owned(),
\* b = y.to_owned(), next to the same comparisons of &*a and &*b
CompareOwned ==
    /\ x # None /\ y # None
    /\ LET a == to_owned(x[1])
           b == to_owned(y[1])
       IN  cmpres' = [op |-> "cmp_owned", arg |-> <<>>,
                      res |-> [eq |-> CString_eq(a, b),
                               partial_cmp |-> CString_partial_cmp(a, b),
                               cmp |-> CString_cmp(a, b),
                               deref_eq |-> CStr_eq(deref(a), deref(b)),
                               deref_partial_cmp |-> CStr_partial_cmp(deref(a), deref(b)),
                               deref_cmp |-> CStr_cmp(deref(a), deref(b))]]
    /\ UNCHANGED <<x, y, cvars, nvars, evars, ivars, pvars, gvars, tvars>>

----------------------------------------------------------------------------
(* TcpStream: read, write and shutdown on one connected stream *)

\* pub enum Shutdown { Read, Write, Both }
Shutdown == {"Read", "Write", "Both"}

\* the calls of shutdown that close the reading / the writing portion
ShutsRead(how) == how \in {"Read", "Both"}
ShutsWrite(how) == how \in {"Write", "Both"}

\* the error of a write on a stream whose writing portion is shut down
BrokenPipe == [kind |-> "BrokenPipe"]

\* lengths of the buffer handed to read and to write
BufLen == 1..SockBuf

\* the smaller of two lengths
Smaller(a, b) == IF a < b THEN a ELSE b

\* a shutdown that closes both portions whatever `how` is
TcpStream_shutdown_whole(sock, how) ==
    [sock EXCEPT !.rd_closed = TRUE, !.wr_closed = TRUE]

\* TcpStream::shutdown(&self, how): closes the portions named by `how`;
\* a portion once closed stays closed
TcpStream_shutdown(sock, how) ==
    [sock EXCEPT !.rd_closed = @ \/ ShutsRead(how),
                 !.wr_closed = @ \/ ShutsWrite(how)]

\* TcpStream::read(&mut self, buf) when it does not block: end-of-stream
\* on a closed reading portion, else the received bytes that fit in buf.
\* None when the call blocks.
TcpStream_read(sock, buflen) ==
    IF sock.rd_closed THEN [sock |-> sock, res |-> Some(Ok(0))]
    ELSE IF sock.inq > 0
         THEN [sock |-> [sock EXCEPT !.inq = @ - Smaller(buflen, sock.inq)],
               res |-> Some(Ok(Smaller(buflen, sock.inq)))]
         ELSE [sock |-> sock, res |-> None]

\* TcpStream::write(&mut self, buf) when it does not block: an error on a
\* closed writing portion, else the bytes of buf that fit in the send
\* buffer. None when the call blocks.
TcpStream_write(sock, buflen) ==
    IF sock.wr_closed THEN [sock |-> sock, res |-> Some(Err(BrokenPipe))]
    ELSE IF sock.outq < SockBuf
         THEN [sock |-> [sock EXCEPT !.outq = @ + Smaller(buflen, SockBuf - sock.outq)],
               res |-> Some(Ok(Smaller(buflen, SockBuf - sock.outq)))]
         ELSE [sock |-> sock, res |-> None]

\* a thread that is not inside a call on the stream
IdleIo == [pc |-> "idle", buflen |-> 0, was_blocked |-> FALSE, res |-> None, shut |-> {}]

InitT ==
    tcp = [sock |-> [rd_closed |-> FALSE, wr_closed |-> FALSE, inq |-> 0, outq |-> 0],
           shut |-> {}, rd |-> IdleIo, wr |-> IdleIo]

\* the outcome of a read or a write in the record of its thread; `shut`
\* keeps the shutdown calls that were complete when the call returned
Settle(io, buflen, res, blocked) ==
    IF res = None
    THEN [io EXCEPT !.pc = "blocked", !.buflen = buflen, !.was_blocked = TRUE]
    ELSE [pc |-> "returned", buflen |-> buflen, was_blocked |-> blocked,
          res |-> res, shut |-> tcp.shut]

\* the reading thread calls stream.read(buf)
TcpRead(buflen) ==
    /\ tcp.rd.pc = "idle"
    /\ LET r == TcpStream_read(tcp.sock, buflen) IN
          tcp' = [tcp EXCEPT !.sock = r.sock,
                             !.rd = Settle(tcp.rd, buflen, r.res, FALSE)]
    /\ UNCHANGED <<cvars, svars, nvars, evars, ivars, pvars, gvars>>

\* a blocked read is woken: data has arrived or the reading portion closed
TcpReadWake ==
    /\ tcp.rd.pc = "blocked"
    /\ TcpStream_read(tcp.sock, tcp.rd.buflen).res # None
    /\ LET r == TcpStream_read(tcp.sock, tcp.rd.buflen) IN
          tcp' = [tcp EXCEPT !.sock = r.sock,
                             !.rd = Settle(tcp.rd, tcp.rd.buflen, r.res, TRUE)]
    /\ UNCHANGED <<cvars, svars, nvars, evars, ivars, pvars, gvars>>

\* the writing thread calls stream.write(buf)
TcpWrite(buflen) ==
    /\ tcp.wr.pc = "idle"
    /\ LET r == TcpStream_write(tcp.sock, buflen) IN
          tcp' = [tcp EXCEPT !.sock = r.sock,
                             !.wr = Settle(tcp.wr, buflen, r.res, FALSE)]
    /\ UNCHANGED <<cvars, svars, nvars, evars, ivars, pvars, gvars>>

\* a blocked write is woken: the send buffer has room or the writing
\* portion closed
TcpWriteWake ==
    /\ tcp.wr.pc = "blocked"
    /\ TcpStream_write(tcp.sock, tcp.wr.buflen).res # None
    /\ LET r == TcpStream_write(tcp.sock, tcp.wr.buflen) IN
          tcp' = [tcp EXCEPT !.sock = r.sock,
                             !.wr = Settle(tcp.wr, tcp.wr.buflen, r.res, TRUE)]
    /\ UNCHANGED <<cvars, svars, nvars, evars, ivars, pvars, gvars>>

\* the caller of read takes the result
TcpReadTaken ==
    /\ tcp.rd.pc = "returned"
    /\ tcp' = [tcp EXCEPT !.rd = IdleIo]
    /\ UNCHANGED <<cvars, svars, nvars, evars, ivars, pvars, gvars>>

\* the caller of write takes the result
TcpWriteTaken ==
    /\ tcp.wr.pc = "returned"
    /\ tcp' = [tcp EXCEPT !.wr = IdleIo]
    /\ UNCHANGED <<cvars, svars, nvars, evars, ivars, pvars, gvars>>

\* a third thread calls stream.shutdown(how)
TcpShutdown(how) ==
    /\ tcp' = [tcp EXCEPT !.sock = TcpStream_shutdown(tcp.sock, how),
                          !.shut = @ \cup {how}]
    /\ UNCHANGED <<cvars, svars, nvars, evars, ivars, pvars, gvars>>

\* the peer sends one byte
PeerSend ==
    /\ tcp.sock.inq < SockBuf
    /\ tcp' = [tcp EXCEPT !.sock.inq = @ + 1]
    /\ UNCHANGED <<cvars, svars, nvars, evars, ivars, pvars, gvars>>

\* the peer receives one byte
PeerRecv ==
    /\ tcp.sock.outq > 0
    /\ tcp' = [tcp EXCEPT !.sock.outq = @ - 1]
    /\ UNCHANGED <<cvars, svars, nvars, evars, ivars, pvars, gvars>>

----------------------------------------------------------------------------
(* The boundary layer: Buffer Marshaller and Trusted Call Gate *)

\* the enclave threads that cross the boundary
Thread == {1, 2}
\* the requests of thread t: bytes of its own pattern, up to one byte more
\* than the arena holds
Requests(t) == {[i \in 1..n |-> 10 * t + i] : n \in 1..(ArenaCap + 1)}
\* the status words the host reports: 0 is success
StatusWord == {0, 5}
\* by how much the response length the host declares exceeds the region
Excess == {0, 1}
\* the byte the host answers a request byte with
HostAnswer(b) == b + 100

\* enum BoundaryError
CapacityExceeded == [kind |-> "CapacityExceeded"]
UntrustedSizeMismatch == [kind |-> "UntrustedSizeMismatch"]
BoundaryHostRejected(code) == [kind |-> "HostRejected", code |-> code]

\* SharedHandle: a region of the arena; the cells of a region
NoHandle == [start |-> 0, len |-> 0]
Region(h) == h.start..(h.start + h.len - 1)
\* the cells claimed by the crossings in progress
Claimed == UNION {Region(th[t].handle) : t \in Thread}

\* a claim that does not look at the regions already claimed
FreeStarts_unguarded(len) == 1..(ArenaCap - len + 1)

\* the starts of the free regions of len cells
FreeStarts(len) ==
    {s \in 1..(ArenaCap - len + 1) : (s..(s + len - 1)) \cap Claimed = {}}

\* copy_out(local_bytes) into the region that starts at s
copy_out(a, local_bytes, s) ==
    [handle |-> [start |-> s, len |-> Len(local_bytes)],
     arena |-> [c \in 1..ArenaCap |->
                  IF c \in s..(s + Len(local_bytes) - 1)
                  THEN local_bytes[c - s + 1] ELSE a[c]]]

\* a copy_in that takes the region whatever length the host declares
copy_in_trusting(a, handle, expected_len, declared) ==
    Ok([i \in 1..expected_len |-> a[handle.start + i - 1]])

\* copy_in(handle, expected_len): the region as owned bytes, or
\* UntrustedSizeMismatch when the host declares another length
copy_in(a, handle, expected_len, declared) ==
    IF declared # expected_len THEN Err(UntrustedSizeMismatch)
    ELSE Ok([i \in 1..expected_len |-> a[handle.start + i - 1]])

\* a return path that copies the response in before it looks at the status
gate_return_copy_first(a, call) ==
    LET r == copy_in(a, call.handle, call.handle.len, call.declared)
    IN  IF ~r.ok THEN [result |-> r, copied |-> TRUE]
        ELSE IF call.status # 0
        THEN [result |-> Err(BoundaryHostRejected(call.status)), copied |-> TRUE]
        ELSE [result |-> r, copied |-> TRUE]

\* the return path of invoke: the status word first, copy_in on status 0
gate_return(a, call) ==
    IF call.status # 0
    THEN [result |-> Err(BoundaryHostRejected(call.status)), copied |-> FALSE]
    ELSE [result |-> copy_in(a, call.handle, call.handle.len, call.declared),
          copied |-> TRUE]

\* a thread with no boundary call in progress
IdleCall ==
    [pc |-> "idle", req |-> <<>>, handle |-> NoHandle, crossed |-> FALSE,
     status |-> 0, declared |-> 0, copied |-> FALSE, result |-> None]

\* thread t calls invoke(op_code, req): the request is copied out into a
\* free region (the lowest one), or the call fails with CapacityExceeded;
\* while no region is free the thread waits
Invoke(t, req) ==
    /\ th[t].pc = "idle"
    /\ IF Len(req) > ArenaCap
       THEN /\ th' = [th EXCEPT ![t] = [IdleCall EXCEPT !.pc = "done", !.req = req,
                                          !.result = Some(Err(CapacityExceeded))]]
            /\ UNCHANGED arena
       ELSE /\ FreeStarts(Len(req)) # {}
            /\ LET s == CHOOSE m \in FreeStarts(Len(req)) :
                            \A k \in FreeStarts(Len(req)) : m <= k
                   o == copy_out(arena, req, s)
               IN  /\ arena' = o.arena
                   /\ th' = [th EXCEPT ![t] = [IdleCall EXCEPT !.pc = "crossing",
                                                 !.req = req, !.handle = o.handle]]
    /\ UNCHANGED <<cvars, svars, nvars, evars, ivars, pvars, tvars>>

\* the host serves the crossing of thread t: it reports a status word and a
\* response length (that of the region plus excess) and, on success, answers
\* the request in its region
HostServe(t, status, excess) ==
    /\ th[t].pc = "crossing"
    /\ arena' = [c \in 1..ArenaCap |->
                   IF status = 0 /\ c \in Region(th[t].handle)
                   THEN HostAnswer(arena[c]) ELSE arena[c]]
    /\ th' = [th EXCEPT ![t] = [@ EXCEPT !.pc = "returned", !.crossed = TRUE,
                                  !.status = status,
                                  !.declared = th[t].handle.len + excess]]
    /\ UNCHANGED <<cvars, svars, nvars, evars, ivars, pvars, tvars>>

\* the crossing of thread t returns: the gate builds the result and the
\* region is released
GateReturn(t) ==
    /\ th[t].pc = "returned"
    /\ LET r == gate_return(arena, th[t])
       IN  th' = [th EXCEPT ![t] = [@ EXCEPT !.pc = "done", !.handle = NoHandle,
                                     !.copied = r.copied, !.result = Some(r.result)]]
    /\ UNCHANGED <<arena, cvars, svars, nvars, evars, ivars, pvars, tvars>>

\* the caller of thread t takes the result
TakeResult(t) ==
    /\ th[t].pc = "done"
    /\ th' = [th EXCEPT ![t] = IdleCall]
    /\ UNCHANGED <<arena, cvars, svars, nvars, evars, ivars, pvars, tvars>>

----------------------------------------------------------------------------
(* Specifications *)

InitC == cs = None /\ boxed = None /\ out = NoOut
InitS == x = None /\ y = None /\ cmpres = NoCmp
InitN ==
    /\ pc = "idle"
    /\ resolved = None
    /\ f = NoClosure
    /\ addrs = <<>>
    /\ last_err = None
    /\ calls = <<>>
    /\ ret = None

\* the process starts with an empty environment
InitE ==
    /\ env = <<>>
    /\ hist = [k \in EnvKey |-> None]
    /\ eout = NoEnvOut
InitI == it = None /\ snapshot = <<>> /\ yielded = <<>> /\ itout = NoItOut
InitP == pout = NoPathOut
InitG == arena = [c \in 1..ArenaCap |-> 0] /\ th = [t \in Thread |-> IdleCall]

Init == InitC /\ InitS /\ InitN /\ InitE /\ InitI /\ InitP /\ InitG /\ InitT

Next ==
    \/ \E b \in ByteSeqs : New(b)
    \/ \E v \in ByteSeqs : FromVecWithNul(v)
    \/ Default
    \/ \E v \in NonZeroSeqs : FromNonZero(v)
    \/ \E s \in SafeCStrs : ToOwned(s)
    \/ \E s \in SafeCStrs : CloneInto(s)
    \/ Clone
    \/ Drop
    \/ IntoBytes
    \/ IntoBytesWithNul
    \/ IntoRaw
    \/ IntoArc
    \/ IntoRc
    \/ IntoString
    \/ IntoCStringOfError
    \/ DropError
    \/ IntoBoxedCStr
    \/ IntoCString
    \/ DropBox

\* the C-string program alone
Spec == Init /\ [][Next]_vars

NextCStr ==
    \/ \E bytes \in ByteSeqs : BorrowX(bytes)
    \/ \E bytes \in ByteSeqs : BorrowY(bytes)
    \/ Compare
    \/ EndBorrow
    \/ \E start \in IndexStart : IndexFrom(start)
    \/ CompareOwned

\* the CStr program alone
SpecCStr == Init /\ [][NextCStr]_vars

NextUnsafe ==
    \/ \E v \in ByteSeqs : UnsafeFromVec(v)
    \/ \E v \in ByteSeqs : UnsafeFromVecWithNul(v)
    \/ UnsafeAsBytes
    \/ UnsafeDrop

\* the unsafe constructors of CString, with as_bytes and Drop
SpecUnsafe == Init /\ [][NextUnsafe]_vars

NextNet ==
    \/ Resolve
    \/ ResolveFailed
    \/ Attempt
    \/ Exhausted
    \/ Return

\* each_addr alone
SpecNet == Init /\ [][NextNet]_vars

NextEnv ==
    \/ \E k \in EnvKey, v \in EnvValue, h \in Host : SetVar(k, v, h)
    \/ \E k \in EnvKey, h \in Host : RemoveVar(k, h)
    \/ \E k \in EnvKey, h \in Host : VarOs(k, h)
    \/ \E k \in EnvKey, h \in Host : Var(k, h)

\* the environment-variable operations alone
SpecEnv == Init /\ [][NextEnv]_vars

\* the set_var and remove_var calls that run between the calls of next()
IterKey == {<<75>>, <<76>>}
IterValue == {<<65>>, <<169>>}

NextVars ==
    \/ CallVarsOs
    \/ CallVars
    \/ NextVarsOsItem
    \/ NextVarsItem
    \/ DropIter
    \/ \E k \in IterKey, v \in IterValue : SetVar(k, v, "served")
    \/ \E k \in IterKey : RemoveVar(k, "served")

\* iteration over a snapshot while the environment changes
SpecVars == Init /\ [][NextVars]_vars

NextPaths ==
    \/ \E s \in PathStrings : SplitThenJoin(s)
    \/ \E paths \in PathLists : JoinThenSplit(paths)
    \/ PathsDone

\* the path-list compositions alone
SpecPaths == Init /\ [][NextPaths]_vars

NextGate ==
    \/ \E t \in Thread : \E req \in Requests(t) : Invoke(t, req)
    \/ \E t \in Thread, status \in StatusWord, excess \in Excess :
          HostServe(t, status, excess)
    \/ \E t \in Thread : GateReturn(t)
    \/ \E t \in Thread : TakeResult(t)

\* two threads crossing the boundary over one arena
SpecGate == Init /\ [][NextGate]_vars

NextTcp ==
    \/ \E buflen \in BufLen : TcpRead(buflen)
    \/ TcpReadWake
    \/ TcpReadTaken
    \/ \E buflen \in BufLen : TcpWrite(buflen)
    \/ TcpWriteWake
    \/ TcpWriteTaken
    \/ \E how \in Shutdown : TcpShutdown(how)
    \/ PeerSend
    \/ PeerRecv

\* a blocked call whose condition has come is woken in the end
SpecTcp ==
    Init /\ [][NextTcp]_vars /\ WF_vars(TcpReadWake) /\ WF_vars(TcpWriteWake)

----------------------------------------------------------------------------
(* Properties of the C-string program *)

ZeroIndices(b) == {i \in 1..Len(b) : b[i] = 0}
NoZero(b) == ZeroIndices(b) = {}

\* Invariants 1 and 2 of CString: length at least one, exactly one zero
\* byte, and that zero byte is the last one
InvariantsHold(inner) ==
    /\ Len(inner) >= 1
    /\ Cardinality(ZeroIndices(inner)) = 1
    /\ inner[Len(inner)] = 0

\* the operations that end the life of a CString by dropping it
DropOps == {"drop", "clone", "drop_error"}
\* the operations that end the life of a CString by consuming it
ConsumeOps == {"into_bytes", "into_bytes_with_nul", "into_string", "into_raw",
               "into_boxed_c_str", "into_arc", "into_rc"}

\* C1: after any sequence of safe public operations the live CString (and
\* the CString an IntoStringError gives back) has a buffer of length >= 1
\* holding exactly one zero byte, at its last index.
C1_CStringInvariants ==
    /\ cs # None => InvariantsHold(cs[1].inner)
    /\ (out.op = "into_string" /\ ~out.res.ok)
          => InvariantsHold(into_cstring(out.res.err).inner)

C1_Witness ==
    /\ out.op = "clone_into"
    /\ cs # None
    /\ Len(cs[1].inner) >= 3

\* C2: for every b without a zero byte, the empty b included, CString::new(b)
\* succeeds and as_bytes() and into_bytes() of the result are exactly b.
C2_NewRoundTrip ==
    (out.op = "new" /\ NoZero(out.arg))
        => /\ out.res.ok
           /\ as_bytes(out.res.val) = out.arg
           /\ into_bytes(out.res.val) = out.arg

C2_Witness ==
    /\ out.op = "new"
    /\ NoZero(out.arg)
    /\ Len(out.arg) = 2
    /\ cs = Some(out.res.val)

\* C3 as stated: for every position i at which b holds a zero byte,
\* CString::new(b) fails with nul_position() = i and into_vec() = b.
C3_EveryZeroPosition ==
    out.op = "new"
        => \A i \in 0..(Len(out.arg) - 1) :
              out.arg[i + 1] = 0
                  => /\ ~out.res.ok
                     /\ nul_position(out.res.err) = i
                     /\ into_vec(out.res.err) = out.arg

\* C3 amended: when b holds a zero byte, CString::new(b) fails with a
\* NulError whose nul_position() is the index of the first zero byte of b
\* and whose into_vec() is b unchanged.
C3_FirstZeroPosition ==
    (out.op = "new" /\ ~NoZero(out.arg))
        => /\ ~out.res.ok
           /\ out.arg[nul_position(out.res.err) + 1] = 0
           /\ \A j \in 1..nul_position(out.res.err) : out.arg[j] # 0
           /\ into_vec(out.res.err) = out.arg

C3_Witness ==
    /\ out.op = "new"
    /\ Cardinality(ZeroIndices(out.arg)) = 2
    /\ ~out.res.ok
    /\ nul_position(out.res.err) = 1

\* C4: from_vec_with_nul(v) succeeds iff v holds exactly one zero byte, at
\* index len - 1; otherwise it fails with InteriorNul(pos), pos the index of
\* the first zero byte, when v holds a zero byte, and with NotNulTerminated
\* when v holds none, the error's as_bytes()/into_bytes() being v unchanged.
C4_FromVecWithNul ==
    out.op = "from_vec_with_nul"
        => LET v == out.arg
               zeros == ZeroIndices(v)
               wellFormed == zeros = {Len(v)}
               first == CHOOSE i \in zeros : \A j \in zeros : i <= j
           IN  /\ out.res.ok <=> wellFormed
               /\ (zeros # {} /\ ~wellFormed)
                     => /\ ~out.res.ok
                        /\ out.res.err.error_kind = InteriorNul(first - 1)
                        /\ FromVecWithNulError_as_bytes(out.res.err) = v
                        /\ FromVecWithNulError_into_bytes(out.res.err) = v
               /\ zeros = {}
                     => /\ ~out.res.ok
                        /\ out.res.err.error_kind = NotNulTerminated
                        /\ FromVecWithNulError_as_bytes(out.res.err) = v
                        /\ FromVecWithNulError_into_bytes(out.res.err) = v

C4_Witness ==
    /\ out.op = "from_vec_with_nul"
    /\ ~out.res.ok
    /\ out.res.err.error_kind = InteriorNul(1)
    /\ out.arg[Len(out.arg)] = 0

\* Well-formed UTF-8, stated from the encoding itself: a byte sequence is
\* well formed when it is a concatenation of encodings of Unicode scalar
\* values, each in its shortest form.
IsScalarEncoding(s) ==
    \/ Len(s) = 1 /\ s[1] < 128
    \/ /\ Len(s) = 2
       /\ s[1] >= 192 /\ s[1] <= 223 /\ IsCont(s[2])
       /\ (s[1] - 192) * 64 + (s[2] - 128) >= 128
    \/ /\ Len(s) = 3
       /\ s[1] >= 224 /\ s[1] <= 239 /\ IsCont(s[2]) /\ IsCont(s[3])
       /\ LET cp == (s[1] - 224) * 4096 + (s[2] - 128) * 64 + (s[3] - 128)
          IN  cp >= 2048 /\ ~(cp >= 55296 /\ cp <= 57343)
    \/ /\ Len(s) = 4
       /\ s[1] >= 240 /\ s[1] <= 247
       /\ IsCont(s[2]) /\ IsCont(s[3]) /\ IsCont(s[4])
       /\ LET cp == (s[1] - 240) * 262144 + (s[2] - 128) * 4096
                       + (s[3] - 128) * 64 + (s[4] - 128)
          IN  cp >= 65536 /\ cp <= 1114111

RECURSIVE WellFormedUtf8(_)
WellFormedUtf8(s) ==
    \/ s = <<>>
    \/ \E k \in 1..Len(s) :
          /\ k <= 4
          /\ IsScalarEncoding(SubSeq(s, 1, k))
          /\ WellFormedUtf8(SubSeq(s, k + 1, Len(s)))

LongestValidPrefix(s) ==
    CHOOSE n \in 0..Len(s) :
        /\ WellFormedUtf8(SubSeq(s, 1, n))
        /\ \A m \in (n + 1)..Len(s) : ~WellFormedUtf8(SubSeq(s, 1, m))

\* C6: into_string on a CString whose bytes are valid UTF-8 returns the
\* String with exactly those bytes; otherwise it returns an IntoStringError
\* whose into_cstring() equals the original CString and whose
\* utf8_error().valid_up_to() is the length of the longest valid prefix.
C6_IntoString ==
    out.op = "into_string"
        => LET original == CString(out.before)
               b == PopLast(out.before)
           IN  /\ WellFormedUtf8(b)
                     => out.res.ok /\ out.res.val.vec = b
               /\ ~WellFormedUtf8(b)
                     => /\ ~out.res.ok
                        /\ into_cstring(out.res.err) = original
                        /\ InvariantsHold(into_cstring(out.res.err).inner)
                        /\ utf8_error(out.res.err).valid_up_to
                              = LongestValidPrefix(b)

C6_Witness ==
    /\ out.op = "into_string"
    /\ ~out.res.ok
    /\ utf8_error(out.res.err).valid_up_to = 2
    /\ Len(out.before) = 4

\* C7 as stated: whenever a CString ceases to exist, by a drop or by one of
\* the consuming conversions, the first byte of its buffer is zero when the
\* buffer is released or handed on.
C7_WipeOnEveryExit ==
    out.op \in DropOps \cup ConsumeOps
        => Len(out.buf) >= 1 /\ out.buf[1] = 0

\* C7 amended: the wipe runs whenever a CString is dropped (scope exit,
\* replacement, or the drop of an IntoStringError holding it): the buffer is
\* released with its first byte zeroed and the rest untouched; the consuming
\* conversions move the buffer out without the wipe, bytes unchanged.
C7_WipeOnDrop ==
    /\ out.op \in DropOps
          => /\ Len(out.buf) = Len(out.before)
             /\ out.buf[1] = 0
             /\ \A i \in 2..Len(out.buf) : out.buf[i] = out.before[i]
    /\ out.op \in ConsumeOps => out.buf = out.before

C7_Witness ==
    /\ out.op = "drop"
    /\ out.before[1] # 0
    /\ out.buf[1] = 0

----------------------------------------------------------------------------
(* Properties of the CStr program *)

\* C5: from_bytes_with_nul(bytes) succeeds exactly when bytes is
\* nul-terminated with no interior zero byte, and then to_bytes_with_nul()
\* is bytes; it fails with InteriorNul(offset of the first zero byte) when a
\* zero byte occurs before the last index, and with NotNulTerminated when
\* bytes holds no zero byte.
C5_FromBytesWithNul ==
    cmpres.op = "from_bytes_with_nul"
        => LET bytes == cmpres.arg
               r == cmpres.res
               zeros == ZeroIndices(bytes)
               terminated == Len(bytes) >= 1 /\ bytes[Len(bytes)] = 0
               interior == \E i \in zeros : i < Len(bytes)
               first == CHOOSE i \in zeros : \A j \in zeros : i <= j
           IN  /\ r.ok <=> (terminated /\ ~interior)
               /\ r.ok => to_bytes_with_nul(r.val) = bytes
               /\ interior => ~r.ok /\ r.err.kind = InteriorNul(first - 1)
               /\ zeros = {} => ~r.ok /\ r.err.kind = NotNulTerminated

C5_Witness ==
    /\ cmpres.op = "from_bytes_with_nul"
    /\ ~cmpres.res.ok
    /\ cmpres.res.err.kind = InteriorNul(1)
    /\ Len(cmpres.arg) = 3
    /\ cmpres.arg[3] = 0

\* the bytes of a C string without its terminator
Content(c) == SubSeq(c.inner, 1, Len(c.inner) - 1)

\* a is before b in the lexicographic byte-wise order
LexLess(a, b) ==
    \/ /\ Len(a) < Len(b)
       /\ \A i \in 1..Len(a) : a[i] = b[i]
    \/ \E k \in 1..Len(a) :
          /\ k <= Len(b)
          /\ \A i \in 1..(k - 1) : a[i] = b[i]
          /\ a[k] < b[k]

LexOrder(a, b) ==
    IF a = b THEN "Equal" ELSE IF LexLess(a, b) THEN "Less" ELSE "Greater"

\* C8: x == y holds exactly when the bytes excluding the terminator are
\* equal, cmp/partial_cmp is the lexicographic byte-wise order of those
\* bytes, and cmp is Equal iff x == y.
C8_CStrEqOrd ==
    cmpres.op = "cmp"
        => LET a == Content(x[1])
               b == Content(y[1])
           IN  /\ cmpres.res.eq <=> a = b
               /\ cmpres.res.cmp = LexOrder(a, b)
               /\ cmpres.res.partial_cmp = Some(LexOrder(a, b))
               /\ cmpres.res.cmp = "Equal" <=> cmpres.res.eq

C8_Witness ==
    /\ cmpres.op = "cmp"
    /\ Len(x[1].inner) > Len(y[1].inner)
    /\ cmpres.res.cmp = "Less"
    /\ ~cmpres.res.eq

----------------------------------------------------------------------------
(* Properties of each_addr *)

\* each_addr has returned after a resolution that succeeded
DoneResolved == pc = "done" /\ resolved # None /\ resolved[1].ok

\* the positions of the candidates on which f succeeds
Successes == {k \in 1..Len(f) : f[k].ok}

\* C9: over candidates [a1..an], each_addr returns Ok with f's result for
\* the first candidate in resolution order on which f succeeds, whatever f
\* returned for the earlier ones; f was tried on the candidates in order.
C9_FirstSuccess ==
    (DoneResolved /\ Successes # {})
        => LET k == CHOOSE i \in Successes : \A j \in Successes : i <= j
           IN  /\ ret = Some(Ok(f[k].val))
               /\ Len(calls) = k
               /\ \A j \in 1..k :
                     calls[j] = [arg |-> Ok(resolved[1].val[j]), res |-> f[j]]

C9_Witness ==
    /\ DoneResolved
    /\ resolved[1].val = <<"A", "B", "C">>
    /\ Successes = {2}
    /\ ret = Some(Ok(f[2].val))

\* C10: over a non-empty candidate sequence on which f fails everywhere,
\* each_addr returns Err with the error f gave for the last candidate.
C10_LastError ==
    (DoneResolved /\ Len(resolved[1].val) >= 1 /\ Successes = {})
        => ret = Some(Err(f[Len(f)].err))

C10_Witness ==
    /\ DoneResolved
    /\ Len(resolved[1].val) = 2
    /\ Successes = {}
    /\ f[1].err # f[2].err
    /\ ret = Some(Err(f[2].err))

\* C11: when the resolution succeeds with no candidate at all, each_addr
\* never invokes f and returns Err with an error of kind InvalidInput whose
\* message is "could not resolve to any addresses".
C11_NoCandidates ==
    (DoneResolved /\ resolved[1].val = <<>>)
        => /\ calls = <<>>
           /\ ret = Some(Err([kind |-> "InvalidInput",
                              msg |-> "could not resolve to any addresses"]))

C11_Witness ==
    /\ pc = "done"
    /\ resolved = Some(Ok(<<>>))
    /\ f = <<>>
    /\ calls = <<>>
    /\ ret # None
    /\ ~ret[1].ok

----------------------------------------------------------------------------
(* Properties of the environment operations *)

\* a name without '=' and without the nul byte, and not the empty name
ValidKey(k) == k # <<>> /\ \A i \in 1..Len(k) : k[i] # 61 /\ k[i] # 0
\* a name with '=' or the nul byte in it
HasEqualsOrNul(k) == \E i \in 1..Len(k) : k[i] = 61 \/ k[i] = 0

C13_VarOutcomes ==
    (eout.op = "var" /\ ~var_os(env, eout.key, eout.host).panic)
        => LET o == var_os(env, eout.key, eout.host).val
           IN  /\ ~eout.out.panic
               /\ o = None => eout.out.val = Err([kind |-> "NotPresent"])
               /\ (o # None /\ WellFormedUtf8(o[1]))
                     => eout.out.val = Ok([vec |-> o[1]])
               /\ (o # None /\ ~WellFormedUtf8(o[1]))
                     => eout.out.val = Err([kind |-> "NotUnicode", os |-> o[1]])

C13_Witness ==
    /\ eout.op = "var"
    /\ eout.key = <<76>>
    /\ ~eout.out.panic
    /\ eout.out.val = Err([kind |-> "NotUnicode", os |-> <<169>>])

\* C14: var_os(key) never panics: it returns Some(value) when the lookup
\* succeeds and finds the variable set, and None when the variable is not
\* set or the lookup reports an error.
C14_VarOsNeverPanics ==
    eout.op = "var_os"
        => /\ ~eout.out.panic
           /\ IF eout.sys.res.ok /\ eout.sys.res.val # None
              THEN eout.out.val = eout.sys.res.val
              ELSE eout.out.val = None

\* C15: var_os with a key that holds a zero byte is rejected with a failure
\* value without any boundary crossing; with a key without a zero byte it
\* makes exactly one boundary call.
C15_NulKeyRejectedLocally ==
    eout.op = "var_os"
        => IF \E i \in 1..Len(eout.key) : eout.key[i] = 0
           THEN ~eout.out.panic /\ eout.sys.crossings = 0
           ELSE eout.sys.crossings = 1

\* C16: after any sequence of set_var and remove_var calls, a var(k) with a
\* valid key whose lookup the host serves returns Ok(v) for the v of the
\* last completed set_var(k, v) when no remove_var(k) followed it and v is
\* UTF-8, and Err(NotPresent) when k was removed last or never set; the
\* calls on other keys do not matter.
C16_LastWriteWins ==
    (eout.op = "var" /\ ValidKey(eout.key) /\ eout.host = "served")
        => LET h == hist[eout.key]
           IN  /\ h = None
                     => eout.out = [panic |-> FALSE, val |-> Err([kind |-> "NotPresent"])]
               /\ (h # None /\ WellFormedUtf8(h[1]))
                     => eout.out = [panic |-> FALSE, val |-> Ok([vec |-> h[1]])]

C16_Witness ==
    /\ eout.op = "var"
    /\ eout.key = <<75>>
    /\ eout.host = "served"
    /\ hist[<<75>>] = Some(<<195, 169>>)
    /\ hist[<<76>>] = Some(<<65>>)
    /\ eout.out = [panic |-> FALSE, val |-> Ok([vec |-> <<195, 169>>])]

\* C17: no key stored in the environment ever holds '=' or the nul byte, and
\* a set_var or remove_var whose key holds '=' or the nul byte panics and
\* leaves the environment as it was.
C17_BadKeysRejected ==
    /\ [](\A i \in 1..Len(env) : ~HasEqualsOrNul(env[i][1]))
    /\ [][(eout'.op \in {"set_var", "remove_var"} /\ HasEqualsOrNul(eout'.key))
             => (eout'.out.panic /\ env' = env)]_vars

C17_Witness ==
    /\ eout.op = "set_var"
    /\ eout.key = <<75, 61>>
    /\ eout.host = "served"
    /\ eout.out.panic
    /\ Len(env) = 2

\* C18: an env operation panics only on a breach of its contract by the
\* caller (set_var or remove_var with an empty key, a key holding '=' or the
\* nul byte, or a value holding the nul byte), never on a condition of the
\* environment such as a lookup the host fails.
C18_PanicOnlyOnContractBreach ==
    eout.out.panic
        => /\ eout.op \in {"set_var", "remove_var"}
           /\ \/ ~ValidKey(eout.key)
              \/ eout.value # None /\ \E i \in 1..Len(eout.value[1]) : eout.value[1][i] = 0

----------------------------------------------------------------------------
(* Properties of the path-list functions *)

\* C19: join_paths(split_paths(s)) succeeds and gives back s, for every
\* string s (with ':' as the separator no entry needs escaping).
C19_SplitThenJoin ==
    pout.op = "split_join" => pout.res = Ok(pout.input)

C19_Witness ==
    /\ pout.op = "split_join"
    /\ pout.input = <<58, 97, 58, 58>>
    /\ pout.mid = << <<>>, <<97>>, <<>>, <<>> >>
    /\ pout.res = Ok(pout.input)

\* C20 as stated: for every list of paths, the empty list included, none of
\* which holds the separator, split_paths(join_paths(L)) yields exactly L.
C20_JoinThenSplitEveryList ==
    (pout.op = "join_split" /\ \A i \in 1..Len(pout.input) : ~HasSeparator(pout.input[i]))
        => pout.res = Ok(pout.input)

\* C20, amended: for every non-empty list of paths (empty paths included)
\* none of which holds the separator, split_paths(join_paths(L)) yields
\* exactly L; the empty list joins to the empty string, which splits into
\* one empty path.
C20_JoinThenSplit ==
    (pout.op = "join_split" /\ \A i \in 1..Len(pout.input) : ~HasSeparator(pout.input[i]))
        => pout.res = Ok(IF pout.input = <<>> THEN << <<>> >> ELSE pout.input)

C20_Witness ==
    /\ pout.op = "join_split"
    /\ pout.input = << <<>>, <<97, 97>> >>
    /\ pout.mid = Ok(<<58, 97, 97>>)
    /\ pout.res = Ok(pout.input)

\* C21: join_paths returns Err(JoinPathsError) when some path of its input,
\* at whatever position and whatever the other paths are, holds the
\* separator, and Ok when none does.
C21_JoinPathsError ==
    pout.op = "join_split"
        => IF \E i \in 1..Len(pout.input) :
                 \E j \in 1..Len(pout.input[i]) : pout.input[i][j] = 58
           THEN /\ ~pout.mid.ok
                /\ pout.mid.err = [inner |-> [kind |-> "path segment contains separator"]]
           ELSE pout.mid.ok

C21_Witness ==
    /\ pout.op = "join_split"
    /\ pout.input = << <<97>>, <<97, 58>> >>
    /\ ~pout.mid.ok
    /\ ~pout.res.ok

----------------------------------------------------------------------------
(* Further properties of each_addr *)

\* C27: each_addr is a sequential fallback: at every moment the invocations
\* of f made so far are on the first candidates in resolution order, one
\* invocation per candidate, every invocation but the latest has returned
\* an error, and so no candidate after the first success is attempted.
C27_SequentialFallback ==
    (resolved # None /\ resolved[1].ok)
        => /\ Len(calls) <= Len(resolved[1].val)
           /\ \A j \in 1..Len(calls) : calls[j].arg = Ok(resolved[1].val[j])
           /\ \A j \in 1..(Len(calls) - 1) : ~calls[j].res.ok
           /\ (\E j \in 1..Len(calls) : calls[j].res.ok) => pc = "done"

C27_Witness ==
    /\ pc = "done"
    /\ resolved = Some(Ok(<<"A", "B", "C">>))
    /\ Len(calls) = 2
    /\ ~calls[1].res.ok
    /\ calls[2].res.ok
    /\ calls[2].arg = Ok("B")

\* C28: when the resolution fails with e, each_addr invokes f exactly once,
\* with Err(e), attempts no candidate and returns what that invocation
\* returned, Ok or Err.
C28_ResolutionFailure ==
    (pc = "done" /\ resolved # None /\ ~resolved[1].ok)
        => /\ calls = <<[arg |-> Err(resolved[1].err), res |-> f[1]]>>
           /\ ret = Some(f[1])

C28_Witness ==
    /\ pc = "done"
    /\ resolved = Some(Err("TimedOut"))
    /\ Len(calls) = 1
    /\ ret = Some(Ok("sock1"))

----------------------------------------------------------------------------
(* Further properties of CStr and CString *)

\* C29: c[start..] is, for every start below the length of c's bytes with
\* the terminator, the CStr of the bytes of c from start on, which ends
\* with the terminator and has no other zero byte (the empty C string when
\* start is the index of the terminator); for every other start it panics.
C29_IndexRangeFrom ==
    (cmpres.op = "index" /\ x # None)
        => LET b == x[1].inner
               start == cmpres.arg[1]
           IN  IF start < Len(b)
               THEN /\ ~cmpres.res.panic
                    /\ cmpres.res.val.inner = [i \in 1..(Len(b) - start) |-> b[i + start]]
                    /\ InvariantsHold(cmpres.res.val.inner)
               ELSE cmpres.res.panic

C29_Witness ==
    /\ cmpres.op = "index"
    /\ x # None
    /\ x[1].inner = <<65, 169, 0>>
    /\ cmpres.arg = <<2>>
    /\ ~cmpres.res.panic
    /\ cmpres.res.val.inner = <<0>>

\* C30: for CStrings a and b that satisfy the invariants, the derived ==,
\* partial_cmp and cmp of CString (over the buffers with the terminator)
\* agree with ==, partial_cmp and cmp of the borrowed CStr views (over the
\* bytes without the terminator).
C30_OwnedAgreesWithBorrowed ==
    cmpres.op = "cmp_owned"
        => /\ cmpres.res.eq = cmpres.res.deref_eq
           /\ cmpres.res.partial_cmp = cmpres.res.deref_partial_cmp
           /\ cmpres.res.cmp = cmpres.res.deref_cmp

C30_Witness ==
    /\ cmpres.op = "cmp_owned"
    /\ x # None /\ y # None
    /\ x[1].inner = <<65, 0>>
    /\ y[1].inner = <<65, 169, 0>>
    /\ cmpres.res.cmp = "Less"
    /\ ~cmpres.res.eq

\* C26: whatever vector the unsafe constructors from_vec_unchecked and
\* from_vec_with_nul_unchecked are given, the CString they return has a
\* length of at least one and a zero last byte, and as_bytes() and Drop
\* stay inside its buffer.
C26_InvariantOneUnbreakable ==
    /\ cs # None
          => /\ Len(cs[1].inner) >= 1
             /\ cs[1].inner[Len(cs[1].inner)] = 0
    /\ out.op \in {"as_bytes", "drop"} => out.res.ok

----------------------------------------------------------------------------
(* Properties of the boundary layer *)

\* the bytes of the region of thread t
RegionBytes(t) == [i \in 1..th[t].handle.len |-> arena[th[t].handle.start + i - 1]]
\* the answer of the host to all of a request
AnswerTo(req) == [i \in 1..Len(req) |-> req[i] + 100]

\* C23: with two threads crossing over one arena, in every interleaving the
\* regions of two crossings in progress share no cell, the region of a
\* crossing holds the thread's own request until the host serves it and
\* the host's answer to that request afterwards, and a response returned
\* to a thread is the answer to its own request.
C23_ArenaIsolation ==
    /\ \A t \in Thread : \A u \in Thread \ {t} :
          Region(th[t].handle) \cap Region(th[u].handle) = {}
    /\ \A t \in Thread :
          /\ th[t].pc = "crossing" => RegionBytes(t) = th[t].req
          /\ (th[t].pc = "returned" /\ th[t].status = 0)
                => RegionBytes(t) = AnswerTo(th[t].req)
          /\ (th[t].pc = "done" /\ th[t].result[1].ok)
                => th[t].result[1].val = AnswerTo(th[t].req)

C23_Witness ==
    /\ th[1].pc = "done"
    /\ th[1].req = <<11, 12>>
    /\ th[1].result = Some(Ok(<<111, 112>>))
    /\ th[2].pc = "returned"
    /\ th[2].handle = [start |-> 3, len |-> 1]
    /\ arena = <<111, 112, 121>>

\* C24 as stated: a boundary call for which the host declares a response
\* length other than the length of the region fails with
\* UntrustedSizeMismatch, and returns no value built from the response.
C24_MismatchAlwaysReported ==
    \A t \in Thread :
        (th[t].pc = "done" /\ th[t].crossed /\ th[t].declared # Len(th[t].req))
            => th[t].result = Some(Err([kind |-> "UntrustedSizeMismatch"]))

\* C24, amended: a boundary call that the host reports as successful and
\* for which it declares a response length other than the length of the
\* region fails with UntrustedSizeMismatch (with a nonzero status the call
\* fails with HostRejected, whatever the length); in both cases no value
\* built from the response is returned.
C24_SizeMismatch ==
    \A t \in Thread :
        (th[t].pc = "done" /\ th[t].crossed /\ th[t].declared # Len(th[t].req))
            => /\ ~th[t].result[1].ok
               /\ th[t].result[1].err =
                     IF th[t].status = 0 THEN [kind |-> "UntrustedSizeMismatch"]
                     ELSE [kind |-> "HostRejected", code |-> th[t].status]

C24_Witness ==
    /\ th[1].pc = "done"
    /\ th[1].crossed
    /\ th[1].status = 0
    /\ th[1].req = <<11, 12>>
    /\ th[1].declared = 3
    /\ th[1].result = Some(Err([kind |-> "UntrustedSizeMismatch"]))

\* C25: when a crossing returns with a nonzero status word c the call
\* returns HostRejected(c) and the response is not copied in; the response
\* is copied in only on status 0.
C25_StatusFirst ==
    \A t \in Thread :
        (th[t].pc = "done" /\ th[t].crossed)
            => /\ th[t].status # 0
                     => /\ th[t].result = Some(Err([kind |-> "HostRejected",
                                                    code |-> th[t].status]))
                        /\ ~th[t].copied
               /\ th[t].copied => th[t].status = 0

C25_Witness ==
    /\ th[2].pc = "done"
    /\ th[2].crossed
    /\ th[2].status = 5
    /\ th[2].declared = Len(th[2].req) + 1
    /\ ~th[2].copied
    /\ th[2].result = Some(Err([kind |-> "HostRejected", code |-> 5]))

----------------------------------------------------------------------------
(* Properties of TcpStream *)

\* a shutdown call that closes the reading / the writing portion is among
\* the calls in done
ReadShut(done) == \E how \in done : ShutsRead(how)
WriteShut(done) == \E how \in done : ShutsWrite(how)

\* a read that returned after a shutdown of the reading portion returned
\* Ok(0); one that returned before any such shutdown returned the bytes
\* received, whatever was shut down on the writing side
ReadsFollowShutdown ==
    tcp.rd.pc = "returned" =>
        IF ReadShut(tcp.rd.shut) THEN tcp.rd.res = Some(Ok(0))
        ELSE /\ tcp.rd.res[1].ok
             /\ tcp.rd.res[1].val \in 1..tcp.rd.buflen

\* a write that returned after a shutdown of the writing portion returned
\* an error; one that returned before any such shutdown returned the bytes
\* it sent, whatever was shut down on the reading side
WritesFollowShutdown ==
    tcp.wr.pc = "returned" =>
        IF WriteShut(tcp.wr.shut) THEN ~tcp.wr.res[1].ok
        ELSE /\ tcp.wr.res[1].ok
             /\ tcp.wr.res[1].val \in 1..tcp.wr.buflen

\* C22: after shutdown(Read) every read that returns returns Ok(0) and a
\* read that is blocked does return, while writes behave as on a stream
\* that was not shut down; after shutdown(Write) every write that returns
\* returns an error and a write that is blocked does return, while reads
\* behave as on a stream that was not shut down; after shutdown(Both) both
\* hold.
C22_Shutdown ==
    /\ [](ReadsFollowShutdown /\ WritesFollowShutdown)
    /\ (tcp.rd.pc = "blocked" /\ ReadShut(tcp.shut))
          ~> (tcp.rd.pc = "returned" /\ tcp.rd.res = Some(Ok(0)))
    /\ (tcp.wr.pc = "blocked" /\ WriteShut(tcp.shut))
          ~> (tcp.wr.pc = "returned" /\ ~tcp.wr.res[1].ok)

\* C22 happens: after shutdown(Read) alone a read that was blocked has
\* returned Ok(0) although bytes have arrived since, and a write has
\* returned the byte it sent
C22_Witness ==
    /\ tcp.shut = {"Read"}
    /\ tcp.sock.inq > 0
    /\ tcp.rd.pc = "returned" /\ tcp.rd.was_blocked /\ tcp.rd.shut = {"Read"}
    /\ tcp.rd.res = Some(Ok(0))
    /\ tcp.wr.pc = "returned" /\ tcp.wr.shut = {"Read"}
    /\ tcp.wr.res = Some(Ok(1))

====
